---- MODULE Spec2Model ----
(***************************************************************************)
(* A model of the nmc connection core (UlusTech/nmc): the VarInt codec,    *)
(* the phase-gated packet decoder, the encoder, the pure packet handlers   *)
(* and the Bun TCP server loop of src/src/main.ts that ties them together. *)
(*                                                                         *)
(* Byte buffers (Uint8Array) are sequences of naturals in 0..255; offsets  *)
(* are 0-based as in the source and converted at the Sequences boundary.   *)
(*                                                                         *)
(* Specifications: Spec (one connection, every split of its stream),       *)
(* SpecMulti (two connections interleaved), SpecDrain (a transport that    *)
(* takes limited writes and signals drain), SpecSplit (streams with bytes  *)
(* behind a frame that ends inside its packet id) and SpecCodec (the pure  *)
(* functions called directly).                                             *)
(***************************************************************************)
EXTENDS Integers, Sequences, FiniteSets, TLC

(***************************************************************************)
(* Bounds of the model.                                                    *)
(***************************************************************************)
\* number of connection ids the transport may ever hand out
MaxConns == 2
\* number of catalogue frames a client appends after its preamble
MaxFrames == 1

ConnIds == 1..MaxConns

(***************************************************************************)
(* Small helpers.                                                          *)
(***************************************************************************)
Min(a, b) == IF a < b THEN a ELSE b

RECURSIVE Pow2(_)
Pow2(n) == IF n = 0 THEN 1 ELSE 2 * Pow2(n - 1)

\* Uint8Array.prototype.slice(a, b) / subarray(a, b): 0-based, end exclusive,
\* both ends clamped to the length, empty when a >= b.
slice(buf, a, b) == SubSeq(buf, Min(a, Len(buf)) + 1, Min(b, Len(buf)))
subarray(buf, a) == slice(buf, a, Len(buf))

(***************************************************************************)
(* VarInt codec: src/src/protocol/codec/varint.ts, a wrapper around        *)
(* decodeVarint32 / encodeVarint of @std/encoding.                         *)
(***************************************************************************)
MaxVarintLen32 == 5

Null == [ok |-> FALSE]

\* decodeVarint32(buf, 0) of @std/encoding/varint as called at varint.ts:16:
\*   for (i = 0; i <= Math.min(buf.length, 5); i += 1, shift += 7) {
\*     byte = buf[i]; decoded += (byte & 0x7f) * 2 ** shift;
\*     if (!(byte & 0x80)) return [decoded, i + 1]; }
\*   throw new RangeError(...)
\* The loop bound is inclusive, so index buf.length is read as well: buf[i] is
\* then undefined, (undefined & x) is 0, and the loop returns as if a zero byte
\* had been there. The function throws only when six bytes in a row carry the
\* continuation bit.
RECURSIVE decodeVarint32Loop(_, _, _, _)
decodeVarint32Loop(buf, i, shift, decoded) ==
    IF i > Min(Len(buf), MaxVarintLen32)
    THEN Null
    ELSE LET byte == IF i < Len(buf) THEN buf[i + 1] ELSE 0
             low  == byte % 128
             add  == IF low = 0 THEN 0 ELSE low * Pow2(shift)
         IN  IF byte < 128
             THEN [ok |-> TRUE, value |-> decoded + add, bytesRead |-> i + 1]
             ELSE decodeVarint32Loop(buf, i + 1, shift + 7, decoded + add)

decodeVarint32(buf) == decodeVarint32Loop(buf, 0, 0, 0)

\* decodeVarInt(buffer, offset): null when the library throws.
decodeVarInt(buffer, offset) == decodeVarint32(subarray(buffer, offset))

\* An encoder that always appends one more group than the value needs.
RECURSIVE encodeVarIntPadded(_)
encodeVarIntPadded(value) ==
    IF value < 128 THEN <<value + 128, 0>>
    ELSE <<(value % 128) + 128>> \o encodeVarIntPadded(value \div 128)

\* encodeVarint(num)[0] of @std/encoding: 7 bits per byte, least significant
\* group first, continuation bit on every byte but the last.
RECURSIVE encodeVarInt(_)
encodeVarInt(value) ==
    IF value < 128 THEN <<value>>
    ELSE <<(value % 128) + 128>> \o encodeVarInt(value \div 128)

(***************************************************************************)
(* Strings are kept as their UTF-8 bytes.  new TextDecoder().decode(bytes) *)
(* is the UTF-8 decoder of the Encoding Standard with replacement: every   *)
(* maximal ill-formed part of the input becomes U+FFFD (EF BF BD), and a   *)
(* byte order mark at the start is dropped.                                *)
(***************************************************************************)
ReplacementCharacter == <<239, 191, 189>>
ByteOrderMark == <<239, 187, 191>>

\* The number of continuation bytes the lead byte x calls for (-1 when x
\* cannot start a sequence), and the range its first continuation is in.
utf8BytesNeeded(x) ==
    IF x < 128 THEN 0
    ELSE IF x >= 194 /\ x <= 223 THEN 1
    ELSE IF x >= 224 /\ x <= 239 THEN 2
    ELSE IF x >= 240 /\ x <= 244 THEN 3
    ELSE -1
utf8LowerBoundary(x) == IF x = 224 THEN 160 ELSE IF x = 240 THEN 144 ELSE 128
utf8UpperBoundary(x) == IF x = 237 THEN 159 ELSE IF x = 244 THEN 143 ELSE 191

\* The k-th byte behind the lead byte at index i is there and is a
\* continuation byte in range.
utf8Fits(bytes, i, k) ==
    /\ i + k <= Len(bytes)
    /\ bytes[i + k] >= (IF k = 1 THEN utf8LowerBoundary(bytes[i]) ELSE 128)
    /\ bytes[i + k] <= (IF k = 1 THEN utf8UpperBoundary(bytes[i]) ELSE 191)

\* How many of the continuation bytes behind the lead byte at index i are
\* there and in range, up to the number needed.
utf8BytesSeen(bytes, i) ==
    Cardinality({ n \in 1..utf8BytesNeeded(bytes[i]) :
                    \A k \in 1..n : utf8Fits(bytes, i, k) })

\* What the decoder emits for the sequence that starts at index i, and how
\* many bytes it has consumed by then: the byte, the well-formed sequence,
\* or U+FFFD for a byte that starts none and for a sequence cut short (the
\* byte that cut it is read again).
utf8Emitted(bytes, i, needed, seen) ==
    IF needed = 0 THEN <<bytes[i]>>
    ELSE IF needed > 0 /\ seen = needed THEN SubSeq(bytes, i, i + needed)
    ELSE ReplacementCharacter
utf8Consumed(needed, seen) == IF needed <= 0 THEN 1 ELSE seen + 1

RECURSIVE utf8Decode(_, _)
utf8DecodeFrom(bytes, i, needed, seen) ==
    utf8Emitted(bytes, i, needed, seen)
        \o utf8Decode(bytes, i + utf8Consumed(needed, seen))

utf8Decode(bytes, i) ==
    IF i > Len(bytes) THEN <<>>
    ELSE utf8DecodeFrom(bytes, i, utf8BytesNeeded(bytes[i]),
                        utf8BytesSeen(bytes, i))

\* The decoded text without a byte order mark at its start.
WithoutByteOrderMark(decoded) ==
    IF Len(decoded) >= 3 /\ SubSeq(decoded, 1, 3) = ByteOrderMark
    THEN SubSeq(decoded, 4, Len(decoded))
    ELSE decoded

TextDecoderDecode(bytes) == WithoutByteOrderMark(utf8Decode(bytes, 1))

\* A string decoder that takes the bytes one position too early.
decodeStringShifted(buffer, offset) ==
    LET lengthResult == decodeVarInt(buffer, offset)
    IN  IF ~lengthResult.ok THEN Null
        ELSE LET stringLength == lengthResult.value
                 stringStart  == offset + lengthResult.bytesRead
                 stringEnd    == stringStart + stringLength
             IN  IF stringEnd > Len(buffer) THEN Null
                 ELSE [ok |-> TRUE,
                       value |-> TextDecoderDecode(
                                     slice(buffer, stringStart - 1,
                                           stringEnd - 1)),
                       bytesRead |-> lengthResult.bytesRead + stringLength]

\* decodeString: VarInt byte length, then that many bytes, which TextDecoder
\* turns into the string.
decodeString(buffer, offset) ==
    LET lengthResult == decodeVarInt(buffer, offset)
    IN  IF ~lengthResult.ok THEN Null
        ELSE LET stringLength == lengthResult.value
                 stringStart  == offset + lengthResult.bytesRead
                 stringEnd    == stringStart + stringLength
             IN  IF stringEnd > Len(buffer) THEN Null
                 ELSE [ok |-> TRUE,
                       value |-> TextDecoderDecode(
                                     slice(buffer, stringStart, stringEnd)),
                       bytesRead |-> lengthResult.bytesRead + stringLength]

\* encodeString: VarInt(byte length) followed by the UTF-8 bytes that
\* TextEncoder gives for the string; a string is kept as those bytes.
encodeString(bytes) == encodeVarInt(Len(bytes)) \o bytes

(***************************************************************************)
(* 64-bit signed integers (bigint payloads) are kept as four 16-bit limbs, *)
(* most significant first, the first one signed: the value is              *)
(* l[1]*2^48 + l[2]*2^32 + l[3]*2^16 + l[4].                               *)
(***************************************************************************)
\* DataView.getBigInt64(0, false): big-endian two's complement.
getBigInt64(data) ==
    LET w(k) == data[2 * k - 1] * 256 + data[2 * k]
    IN  << IF w(1) >= 32768 THEN w(1) - 65536 ELSE w(1), w(2), w(3), w(4) >>

\* setBigInt64 with littleEndian = true: least significant byte first.
setBigInt64LittleEndian(v) ==
    LET u1 == IF v[1] < 0 THEN v[1] + 65536 ELSE v[1]
    IN  << v[4] % 256, v[4] \div 256, v[3] % 256, v[3] \div 256,
           v[2] % 256, v[2] \div 256, u1 % 256, u1 \div 256 >>

\* DataView.setBigInt64(0, v, false) on a fresh 8-byte array.
setBigInt64(v) ==
    LET u1 == IF v[1] < 0 THEN v[1] + 65536 ELSE v[1]
    IN  << u1 \div 256, u1 % 256, v[2] \div 256, v[2] % 256,
           v[3] \div 256, v[3] % 256, v[4] \div 256, v[4] % 256 >>

(***************************************************************************)
(* Packet decoder: src/src/protocol/codec/decode.ts.                       *)
(* A body decoder either returns a packet or throws.                       *)
(***************************************************************************)
Threw == [threw |-> TRUE]
Returned(p) == [threw |-> FALSE, packet |-> p]

\* A Handshake decoder without the final check that the fields fill the body
\* exactly.
decodeHandshakeLoose(data) ==
    LET protocolResult == decodeVarInt(data, 0)
    IN  IF ~protocolResult.ok THEN Threw
        ELSE
        LET offset1 == protocolResult.bytesRead
            addressResult == decodeString(data, offset1)
        IN  IF ~addressResult.ok THEN Threw
            ELSE
            LET offset2 == offset1 + addressResult.bytesRead
            IN  IF offset2 + 2 > Len(data) THEN Threw
                ELSE
                LET port == data[offset2 + 1] * 256 + data[offset2 + 2]
                    nextStateResult == decodeVarInt(data, offset2 + 2)
                IN  IF ~nextStateResult.ok THEN Threw
                    ELSE Returned([type |-> "handshake",
                                   protocolVersion |-> protocolResult.value,
                                   serverAddress |-> addressResult.value,
                                   serverPort |-> port,
                                   nextState |-> nextStateResult.value])

decodeHandshake(data) ==
    LET protocolResult == decodeVarInt(data, 0)
    IN  IF ~protocolResult.ok THEN Threw
        ELSE
        LET offset1 == protocolResult.bytesRead
            addressResult == decodeString(data, offset1)
        IN  IF ~addressResult.ok THEN Threw
            ELSE
            LET offset2 == offset1 + addressResult.bytesRead
            IN  IF offset2 + 2 > Len(data) THEN Threw
                ELSE
                LET port == data[offset2 + 1] * 256 + data[offset2 + 2]
                    offset3 == offset2 + 2
                    nextStateResult == decodeVarInt(data, offset3)
                IN  IF ~nextStateResult.ok THEN Threw
                    ELSE
                    LET offset4 == offset3 + nextStateResult.bytesRead
                    IN  IF offset4 # Len(data) THEN Threw
                        ELSE Returned([type |-> "handshake",
                                       protocolVersion |-> protocolResult.value,
                                       serverAddress |-> addressResult.value,
                                       serverPort |-> port,
                                       nextState |-> nextStateResult.value])

decodePingRequest(data) ==
    IF Len(data) < 8 THEN Threw
    ELSE Returned([type |-> "ping_request", payload |-> getBigInt64(data)])

\* An Incomplete result that hands back nothing of the buffer.
IncompleteDropped(buffer) ==
    [success |-> FALSE, reason |-> "incomplete", remaining |-> <<>>]

Incomplete(buffer) ==
    [success |-> FALSE, reason |-> "incomplete", remaining |-> buffer]
\* The catch block of decodePacket passing the failure on instead of
\* returning the Invalid result.
InvalidEscapes(rest) ==
    [success |-> FALSE, reason |-> "exception", remaining |-> rest]

Invalid(rest) ==
    [success |-> FALSE, reason |-> "invalid", remaining |-> rest]
\* A success result that drops the bytes behind the frame.
SuccessDropsRest(p, rest) ==
    [success |-> TRUE, reason |-> "none", packet |-> p, remaining |-> <<>>]

Success(p, rest) ==
    [success |-> TRUE, reason |-> "none", packet |-> p, remaining |-> rest]

\* Step 3 of decodePacket: the try block that picks the body decoder from
\* the connection state and the packet id. NoPacket is `packet` left null.
NoPacket == [threw |-> FALSE, packet |-> [type |-> "null"]]

\* A decoder that picks the body decoder from the packet id alone.
decodeBodyById(st, packetId, data) ==
    IF packetId = 0
    THEN IF Len(data) = 0 THEN Returned([type |-> "status_request"])
         ELSE decodeHandshake(data)
    ELSE IF packetId = 1 THEN decodePingRequest(data) ELSE Threw

\* A decoder that answers a packet id without a decoder with an empty packet.
decodeBodyLax(st, packetId, data) ==
    IF st = "handshaking" /\ packetId = 0 THEN decodeHandshake(data)
    ELSE IF st = "status" /\ packetId = 1 THEN decodePingRequest(data)
    ELSE IF st = "status" /\ packetId = 0 /\ Len(data) > 0 THEN Threw
    ELSE Returned([type |-> "status_request"])

\* A decoder that accepts a Handshake in status as well.
decodeBodyRehandshake(st, packetId, data) ==
    IF st = "handshaking"
    THEN IF packetId = 0 THEN decodeHandshake(data) ELSE Threw
    ELSE IF st = "status"
    THEN IF packetId = 0
         THEN IF Len(data) > 0 THEN decodeHandshake(data)
              ELSE Returned([type |-> "status_request"])
         ELSE IF packetId = 1 THEN decodePingRequest(data) ELSE Threw
    ELSE NoPacket

decodeBody(st, packetId, data) ==
    IF st = "handshaking"
    THEN IF packetId = 0 THEN decodeHandshake(data) ELSE Threw
    ELSE IF st = "status"
    THEN IF packetId = 0
         THEN IF Len(data) > 0 THEN Threw
              ELSE Returned([type |-> "status_request"])
         ELSE IF packetId = 1 THEN decodePingRequest(data) ELSE Threw
    ELSE NoPacket

decodePacket(buffer, st) ==
    IF Len(buffer) < 2 THEN Incomplete(buffer)
    ELSE
    LET lengthResult == decodeVarInt(buffer, 0)
    IN  IF ~lengthResult.ok THEN Incomplete(buffer)
        ELSE
        LET packetLength == lengthResult.value
            packetStart  == lengthResult.bytesRead
            packetEnd    == packetStart + packetLength
        IN  IF packetEnd > Len(buffer) THEN Incomplete(buffer)
            ELSE
            LET idResult == decodeVarInt(buffer, packetStart)
            IN  IF ~idResult.ok THEN Invalid(subarray(buffer, packetEnd))
                ELSE
                LET packetId  == idResult.value
                    dataStart == packetStart + idResult.bytesRead
                    data      == slice(buffer, dataStart, packetEnd)
                    body      == decodeBody(st, packetId, data)
                IN  IF body.threw
                    THEN Invalid(subarray(buffer, packetEnd))
                    ELSE IF body.packet.type = "null"
                    THEN Invalid(subarray(buffer, packetEnd))
                    ELSE Success(body.packet, subarray(buffer, packetEnd))


(***************************************************************************)
(* Server state: src/src/server-logic/state.ts.  ServerState.connections   *)
(* is a function whose domain is the set of registered connection ids.     *)
(***************************************************************************)
createInitialState == [connections |-> <<>>, currentTick |-> 0]

\* new Map(m).set(k, v)
MapSet(m, k, v) == [x \in (DOMAIN m) \cup {k} |-> IF x = k THEN v ELSE m[x]]
\* new Map(m) with k deleted
MapDelete(m, k) == [x \in (DOMAIN m) \ {k} |-> m[x]]

addConnection(st, conn) ==
    [st EXCEPT !.connections = MapSet(st.connections, conn.id, conn)]

\* An update that writes the field into every record of the registry, as a
\* registry with one shared record would.
updateConnectionShared(st, connId, field, val) ==
    IF connId \notin DOMAIN st.connections THEN st
    ELSE [st EXCEPT !.connections =
              [d \in DOMAIN st.connections |->
                  [st.connections[d] EXCEPT ![field] = val]]]

\* An update that rebuilds the record from its id and the new field, and so
\* loses what else the record held.
updateConnectionFresh(st, connId, field, val) ==
    IF connId \notin DOMAIN st.connections THEN st
    ELSE [st EXCEPT !.connections =
              MapSet(st.connections, connId,
                     [[id |-> connId, state |-> "handshaking",
                       readBuffer |-> <<>>] EXCEPT ![field] = val])]

\* updateConnection(state, connId, updater): `upd` is updater(conn), given as
\* the fields the updater overwrites.
updateConnection(st, connId, field, val) ==
    IF connId \notin DOMAIN st.connections THEN st
    ELSE [st EXCEPT !.connections =
              MapSet(st.connections, connId,
                     [st.connections[connId] EXCEPT ![field] = val])]

\* A removal that leaves the registry as it is.
removeConnectionKeeps(st, connId) == st

removeConnection(st, connId) ==
    [st EXCEPT !.connections = MapDelete(st.connections, connId)]

(***************************************************************************)
(* Handlers: src/src/server-logic/events/handlePacket.ts.                  *)
(* Log messages are kept as tuples of their literal and interpolated parts.*)
(***************************************************************************)
SendPacket(connId, packet) ==
    [type |-> "send_packet", connId |-> connId, packet |-> packet]
Disconnect(connId, reason) ==
    [type |-> "disconnect", connId |-> connId, reason |-> reason]
Log(level, message) ==
    [type |-> "log", level |-> level, message |-> message]

DescriptionText ==
    << 195, 130, 194, 167, 54, 78, 101, 111, 77, 105, 110, 101, 99, 114, 97, 102,
       116, 32, 195, 130, 194, 167, 55, 45, 32, 195, 130, 194, 167, 98, 70, 117,
       110, 99, 116, 105, 111, 110, 97, 108, 32, 84, 121, 112, 101, 83, 99, 114,
       105, 112, 116, 32, 83, 101, 114, 118, 101, 114, 10, 195, 130, 194, 167,
       55, 66, 117, 105, 108, 116, 32, 119, 105, 116, 104, 32, 66, 117, 110, 32,
       195, 176, 197, 184, 197, 161, 226, 130, 172 >>

ConfiguredResponse ==
    [version |-> [name |-> "NeoMinecraft 1.21.3", protocol |-> 768],
     players |-> [max |-> 100, online |-> 0, sample |-> <<>>],
     description |-> [text |-> DescriptionText]]

\* A handshake handler that maps nextState 3 to the play phase.
handleHandshakePlay(ctx) ==
    LET next == IF ctx.packet.nextState = 1 THEN "status"
                ELSE IF ctx.packet.nextState = 2 THEN "login" ELSE "play"
    IN  [newState |-> updateConnection(ctx.state, ctx.connId, "state", next),
         effects |-> << Log("info", <<"Handshake: protocol=",
                                     ToString(ctx.packet.protocolVersion),
                                     ", next=", next>>) >>]

handleHandshake(ctx) ==
    LET next == IF ctx.packet.nextState = 1 THEN "status" ELSE "login"
    IN  [newState |-> updateConnection(ctx.state, ctx.connId, "state", next),
         effects |-> << Log("info", <<"Handshake: protocol=",
                                     ToString(ctx.packet.protocolVersion),
                                     ", next=", next>>) >>]

\* A status handler that answers on connection 1 whoever asked.
handleStatusRequestFirst(ctx) ==
    [newState |-> ctx.state,
     effects |-> << SendPacket(1, [type |-> "status_response",
                                   response |-> ConfiguredResponse]),
                    Log("info", <<"Status request handled">>) >>]

handleStatusRequest(ctx) ==
    [newState |-> ctx.state,
     effects |-> << SendPacket(ctx.connId,
                               [type |-> "status_response",
                                response |-> ConfiguredResponse]),
                    Log("info", <<"Status request handled">>) >>]

handlePingRequest(ctx) ==
    [newState |-> ctx.state,
     effects |-> << SendPacket(ctx.connId,
                               [type |-> "ping_response",
                                payload |-> ctx.packet.payload]),
                    Log("info", <<"Ping responded: ",
                                     ToString(ctx.packet.payload)>>) >>]

\* A router that treats a packet of a type it does not know as a protocol
\* violation: it drops the connection from the registry and asks for a
\* disconnect.
handlePacketStrict(ctx) ==
    IF ctx.packet.type = "handshake" THEN handleHandshake(ctx)
    ELSE IF ctx.packet.type = "status_request" THEN handleStatusRequest(ctx)
    ELSE IF ctx.packet.type = "ping_request" THEN handlePingRequest(ctx)
    ELSE [newState |-> removeConnection(ctx.state, ctx.connId),
          effects |-> << Log("warn", <<"Unknown packet: ", ctx.packet.type>>),
                         Disconnect(ctx.connId, "Unknown packet") >>]

handlePacket(ctx) ==
    IF ctx.packet.type = "handshake" THEN handleHandshake(ctx)
    ELSE IF ctx.packet.type = "status_request" THEN handleStatusRequest(ctx)
    ELSE IF ctx.packet.type = "ping_request" THEN handlePingRequest(ctx)
    ELSE [newState |-> ctx.state,
          effects |-> << Log("warn", <<"Unknown packet: ", ctx.packet.type>>) >>]

(***************************************************************************)
(* Encoder: src/src/protocol/codec/encode.ts.                              *)
(***************************************************************************)
JsonHead ==
    << 123, 34, 118, 101, 114, 115, 105, 111, 110, 34, 58, 123, 34, 110, 97, 109,
       101, 34, 58, 34, 78, 101, 111, 77, 105, 110, 101, 99, 114, 97, 102, 116,
       32, 49, 46, 50, 49, 46, 51, 34, 44, 34, 112, 114, 111, 116, 111, 99,
       111, 108, 34, 58, 55, 54, 56, 125, 44, 34, 112, 108, 97, 121, 101, 114,
       115, 34, 58, 123, 34, 109, 97, 120, 34, 58, 49, 48, 48, 44, 34, 111,
       110, 108, 105, 110, 101, 34, 58, 48, 44, 34, 115, 97, 109, 112, 108, 101,
       34, 58, 91, 93, 125, 44, 34, 100, 101, 115, 99, 114, 105, 112, 116, 105,
       111, 110, 34, 58, 123, 34, 116, 101, 120, 116, 34, 58, 34 >>
JsonTail ==
    << 34, 125, 125 >>

\* The lower-case hexadecimal digit d as a character.
HexDigit(d) == IF d < 10 THEN 48 + d ELSE 87 + d

\* The escape QuoteJSONString gives one character: the quotation mark and
\* the backslash are escaped, the control characters below U+0020 become
\* \b, \t, \n, \f, \r or \u00xx, everything else stands for itself.
QuoteJSONCharacter(x) ==
    IF x = 34 THEN <<92, 34>>
    ELSE IF x = 92 THEN <<92, 92>>
    ELSE IF x = 8 THEN <<92, 98>>
    ELSE IF x = 9 THEN <<92, 116>>
    ELSE IF x = 10 THEN <<92, 110>>
    ELSE IF x = 12 THEN <<92, 102>>
    ELSE IF x = 13 THEN <<92, 114>>
    ELSE IF x < 32
    THEN <<92, 117, 48, 48, HexDigit(x \div 16), HexDigit(x % 16)>>
    ELSE <<x>>

\* The escapes of text[lo..hi] one after the other.
RECURSIVE QuoteJSONRange(_, _, _)
QuoteJSONRange(text, lo, hi) ==
    IF lo > hi THEN <<>>
    ELSE IF lo = hi THEN QuoteJSONCharacter(text[lo])
    ELSE QuoteJSONRange(text, lo, (lo + hi) \div 2)
             \o QuoteJSONRange(text, (lo + hi) \div 2 + 1, hi)

\* QuoteJSONString without the enclosing quotes.
QuoteJSONString(text) == QuoteJSONRange(text, 1, Len(text))

\* JSON.stringify(packet.response) followed by TextEncoder: the document has
\* the fixed key order of the object literal in handleStatusRequest; only the
\* description text varies here.
JSONstringify(response) ==
    JsonHead \o QuoteJSONString(response.description.text) \o JsonTail

\* The error encodePacket throws for a packet that is neither a
\* StatusResponse nor a PingResponse.
UnknownPacketType(packet) ==
    [threw |-> TRUE, message |-> <<"Unknown packet type: ", packet.type>>]

\* An encoder whose length prefix counts the body only, not the packet id.
encodePacketBodyLength(packet) ==
    IF packet.type \notin {"status_response", "ping_response"}
    THEN UnknownPacketType(packet)
    ELSE
    LET packetId == IF packet.type = "status_response" THEN 0 ELSE 1
        data == IF packet.type = "status_response"
                THEN encodeString(JSONstringify(packet.response))
                ELSE setBigInt64(packet.payload)
    IN  encodeVarInt(Len(data)) \o encodeVarInt(packetId) \o data

encodePacket(packet) ==
    IF packet.type \notin {"status_response", "ping_response"}
    THEN UnknownPacketType(packet)
    ELSE
    LET packetId == IF packet.type = "status_response" THEN 0 ELSE 1
        data == IF packet.type = "status_response"
                THEN encodeString(JSONstringify(packet.response))
                ELSE setBigInt64(packet.payload)
        packetContent == encodeVarInt(packetId) \o data
    IN  encodeVarInt(Len(packetContent)) \o packetContent


(***************************************************************************)
(* The server: src/src/main.ts.                                            *)
(*                                                                         *)
(* Program state                                                           *)
(*   state    the module-scoped ServerState (main.ts:26)                   *)
(*   sockets  the ids that have a Socket in the sockets map (main.ts:27)   *)
(*   sinks    the sinks map: id -> bytes queued in its ArrayBufferSink     *)
(* Transport (Bun), per connection id                                      *)
(*   sockStatus  "none" (id not handed out yet), "open", "ended" (the      *)
(*               server called socket.end()), "closed" (close event done)  *)
(*   wire     bytes the client has sent that are not delivered yet         *)
(*   room     what the next socket.write calls accept                      *)
(*   written  bytes socket.write has accepted, in order                    *)
(* Observation                                                             *)
(*   rx       all bytes delivered so far by data events                    *)
(*   handled  every packet passed to handlePacket, with the phase it was   *)
(*            decoded under                                                *)
(*   phases   the values the connection's state field has taken, in order  *)
(*   disconnects  how many times interpreter.disconnect ran for the id     *)
(*   calls    the decoder, handler and interpreter calls of the last event *)
(*   pass     the last event: its kind, its connection, the buffer and the *)
(*            phase processBuffer started from, and how it was left        *)
(*   probe    the last direct call of a codec or handler function, with   *)
(*            its arguments and its result (the codec specification)      *)
(***************************************************************************)
VARIABLES state, sockets, sinks, sockStatus, wire, room, written,
          rx, handled, phases, disconnects, calls, pass, probe

vars == <<state, sockets, sinks, sockStatus, wire, room, written,
          rx, handled, phases, disconnects, calls, pass, probe>>

\* The part of the variables an event handler works on.
World ==
    [state |-> state, sockets |-> sockets, sinks |-> sinks,
     sockStatus |-> sockStatus, room |-> room, written |-> written,
     handled |-> handled, phases |-> phases, disconnects |-> disconnects,
     calls |-> <<>>]

Called(w, call) == [w EXCEPT !.calls = Append(@, call)]

\* socket.write(bytes): the transport accepts a prefix and reports its length.
Accepts(w, connId, bytes) ==
    IF w.room[connId].limited THEN Min(Len(bytes), w.room[connId].n)
    ELSE Len(bytes)

socketWrite(w, connId, bytes) ==
    LET wrote == Accepts(w, connId, bytes)
    IN  [w EXCEPT !.written[connId] = @ \o SubSeq(bytes, 1, wrote),
                  !.room[connId] = IF @.limited
                                   THEN [limited |-> TRUE, n |-> @.n - wrote]
                                   ELSE @]

\* An exception leaves the function that is running: it is the last entry
\* of the calls, and every caller up to the event handler stops where it is.
Throw(w, error) == Called(w, [op |-> "throw", error |-> error])
Thrown(w) == w.calls # <<>> /\ w.calls[Len(w.calls)].op = "throw"

\* flushSink (main.ts:44-64): sink.flush() hands over and empties the sink
\* and socket.write takes a prefix.  The sink was started with
\* { stream: true } only (main.ts:192), so what flush() hands over is an
\* ArrayBuffer; `as Uint8Array` (main.ts:50) changes nothing at run time.
\* When the transport did not take everything, bytes.subarray(wrote)
\* (main.ts:59) is a call of undefined and throws a TypeError: nothing goes
\* back into the sink, the bytes not taken are gone.
flushSink(w, connId) ==
    IF connId \in w.sockets /\ connId \in DOMAIN w.sinks
    THEN LET bytes == w.sinks[connId]
             wrote == Accepts(w, connId, bytes)
             flushed == [socketWrite(w, connId, bytes) EXCEPT
                            !.sinks = MapSet(@, connId, <<>>)]
         IN  IF Len(bytes) > 0
             THEN IF wrote < Len(bytes)
                  THEN Throw(flushed, "TypeError")
                  ELSE flushed
             ELSE w
    ELSE w

\* interpreter.sendPacket.  Its packet is an OutgoingPacket, a StatusResponse
\* or a PingResponse, for which encodePacket returns bytes.  What flushSink
\* throws leaves sendPacket as well.
sendPacket(w, connId, packet) ==
    LET w1 == Called(w, [op |-> "sendPacket", connId |-> connId,
                         packet |-> packet])
    IN  IF connId \in DOMAIN w1.sinks
        THEN flushSink([w1 EXCEPT !.sinks =
                            MapSet(@, connId,
                                   @[connId] \o encodePacket(packet))],
                       connId)
        ELSE w1

\* A disconnect that forgets the socket and keeps its sink.
disconnectKeepsSink(w, connId, reason) ==
    LET w1 == [Called(w, [op |-> "disconnect", connId |-> connId,
                          reason |-> reason])
                  EXCEPT !.disconnects[connId] = @ + 1]
    IN  IF connId \in w1.sockets
        THEN [w1 EXCEPT !.sockStatus[connId] = "ended",
                        !.sockets = @ \ {connId}]
        ELSE w1

\* interpreter.disconnect
disconnect(w, connId, reason) ==
    LET w1 == [Called(w, [op |-> "disconnect", connId |-> connId,
                          reason |-> reason])
                  EXCEPT !.disconnects[connId] = @ + 1]
    IN  IF connId \in w1.sockets
        THEN [w1 EXCEPT !.sockStatus[connId] = "ended",
                        !.sockets = @ \ {connId},
                        !.sinks = MapDelete(@, connId)]
        ELSE w1

\* interpreter.log
log(w, level, message) ==
    Called(w, [op |-> "log", level |-> level, message |-> message])

\* An interpreter loop that walks the list from its end.
RECURSIVE runEffectsReversed(_, _)
runEffectsReversed(w, effects) ==
    IF effects = <<>> THEN w
    ELSE LET effect == effects[Len(effects)]
             w1 == IF effect.type = "send_packet"
                   THEN sendPacket(w, effect.connId, effect.packet)
                   ELSE IF effect.type = "disconnect"
                   THEN disconnect(w, effect.connId, effect.reason)
                   ELSE IF effect.type = "log"
                   THEN log(w, effect.level, effect.message)
                   ELSE w
         IN  IF Thrown(w1) THEN w1
             ELSE runEffectsReversed(w1,
                                     SubSeq(effects, 1, Len(effects) - 1))

\* runEffects (server-logic/effects.ts): one interpreter call per effect, in
\* list order; an interpreter call that throws ends the loop.
RECURSIVE runEffects(_, _)
runEffects(w, effects) ==
    IF effects = <<>> THEN w
    ELSE LET effect == Head(effects)
             w1 == IF effect.type = "send_packet"
                   THEN sendPacket(w, effect.connId, effect.packet)
                   ELSE IF effect.type = "disconnect"
                   THEN disconnect(w, effect.connId, effect.reason)
                   ELSE IF effect.type = "log"
                   THEN log(w, effect.level, effect.message)
                   ELSE w
         IN  IF Thrown(w1) THEN w1 ELSE runEffects(w1, Tail(effects))

\* The effects processBuffer runs on an invalid packet (main.ts:123-135).
InvalidEffects(connId) ==
    << Disconnect(connId, "Invalid packet received"),
       Log("error", <<"Invalid packet received from ", ToString(connId),
                      ". Disconnecting.">>) >>

RECURSIVE processLoop(_, _, _, _)
RECURSIVE processLoopSkip(_, _, _, _)

\* The record of one decodePacket call (main.ts:115).
decodeCall(conn, buffer, result) ==
    [op |-> "decodePacket", buffer |-> buffer, state |-> conn.state,
     success |-> result.success, reason |-> result.reason,
     consumed |-> Len(buffer) - Len(result.remaining)]

\* A success branch that goes on decoding the rest of the buffer before it
\* runs the effects of the packet it has just handled.
handleStepDeferred(w1, connId, conn, buffer, result, handlerResult) ==
    LET w2 == [Called(w1, [op |-> "handlePacket", connId |-> connId,
                           packet |-> result.packet])
                  EXCEPT !.state = handlerResult.newState,
                         !.handled[connId] =
                             Append(@, [packet |-> result.packet,
                                        phase |-> conn.state]),
                         !.phases[connId] =
                             LET after == handlerResult.newState.connections
                             IN  IF connId \in DOMAIN after
                                    /\ after[connId].state # conn.state
                                 THEN Append(@, after[connId].state)
                                 ELSE @]
        rest == processLoop(w2, connId, w2.state.connections[connId],
                            result.remaining)
    IN  [rest EXCEPT !.w = runEffects(@, handlerResult.effects)]

\* A success branch that handles one packet per pass: it runs the effects
\* and leaves the rest of the buffer for the next data event.
handleStepPause(w1, connId, conn, buffer, result, handlerResult) ==
    LET w2 == [Called(w1, [op |-> "handlePacket", connId |-> connId,
                           packet |-> result.packet])
                  EXCEPT !.state = handlerResult.newState,
                         !.handled[connId] =
                             Append(@, [packet |-> result.packet,
                                        phase |-> conn.state]),
                         !.phases[connId] =
                             LET after == handlerResult.newState.connections
                             IN  IF connId \in DOMAIN after
                                    /\ after[connId].state # conn.state
                                 THEN Append(@, after[connId].state)
                                 ELSE @]
    IN  [w |-> runEffects(w2, handlerResult.effects),
         buffer |-> result.remaining, exit |-> "break"]

\* A success branch that goes on with the connection record it had before
\* the handler ran.
handleStepStale(w1, connId, conn, buffer, result, handlerResult) ==
    LET w2 == [Called(w1, [op |-> "handlePacket", connId |-> connId,
                           packet |-> result.packet])
                  EXCEPT !.state = handlerResult.newState,
                         !.handled[connId] =
                             Append(@, [packet |-> result.packet,
                                        phase |-> conn.state]),
                         !.phases[connId] =
                             LET after == handlerResult.newState.connections
                             IN  IF connId \in DOMAIN after
                                    /\ after[connId].state # conn.state
                                 THEN Append(@, after[connId].state)
                                 ELSE @]
    IN  IF connId \notin DOMAIN w2.state.connections
        THEN [w |-> w2, buffer |-> buffer, exit |-> "removed"]
        ELSE processLoop(runEffects(w2, handlerResult.effects), connId,
                         conn, result.remaining)

\* What follows runEffects in the success branch (main.ts:161-165): the loop
\* goes on with result.remaining, unless an effect threw; then processBuffer
\* is left with the handler's state installed and nothing else done.
afterEffects(w3, connId, conn, buffer, result) ==
    IF Thrown(w3)
    THEN [w |-> w3, buffer |-> buffer, exit |-> "threw"]
    ELSE processLoop(w3, connId, conn, result.remaining)

\* The success branch of the loop body (main.ts:141-165): the handler's state
\* is installed, its effects are run, the connection is looked up again and
\* the loop goes on with result.remaining.
handleStep(w1, connId, conn, buffer, result, handlerResult) ==
    LET w2 == [Called(w1, [op |-> "handlePacket", connId |-> connId,
                           packet |-> result.packet])
                  EXCEPT !.state = handlerResult.newState,
                         !.handled[connId] =
                             Append(@, [packet |-> result.packet,
                                        phase |-> conn.state]),
                         !.phases[connId] =
                             LET after == handlerResult.newState.connections
                             IN  IF connId \in DOMAIN after
                                    /\ after[connId].state # conn.state
                                 THEN Append(@, after[connId].state)
                                 ELSE @]
    IN  IF connId \notin DOMAIN w2.state.connections
        THEN [w |-> w2, buffer |-> buffer, exit |-> "removed"]
        ELSE afterEffects(runEffects(w2, handlerResult.effects), connId,
                          w2.state.connections[connId], buffer, result)

\* A loop body that skips an invalid frame and goes on with the bytes behind
\* it instead of returning.
decodeStepSkip(w1, connId, conn, buffer, result) ==
    IF ~result.success
    THEN IF result.reason = "incomplete"
         THEN [w |-> w1, buffer |-> buffer, exit |-> "break"]
         ELSE processLoopSkip(runEffects(w1, InvalidEffects(connId)),
                              connId, conn, result.remaining)
    ELSE handleStep(w1, connId, conn, buffer, result,
                    handlePacket([state |-> w1.state, connId |-> connId,
                                  packet |-> result.packet]))

withResultSkip(w, connId, conn, buffer, result) ==
    decodeStepSkip(Called(w, decodeCall(conn, buffer, result)),
                   connId, conn, buffer, result)

processLoopSkip(w, connId, conn, buffer) ==
    IF Len(buffer) = 0
    THEN [w |-> w, buffer |-> buffer, exit |-> "empty"]
    ELSE withResultSkip(w, connId, conn, buffer,
                        decodePacket(buffer, conn.state))

\* The loop body once decodePacket returned `result` (main.ts:117-139): break
\* on incomplete, [disconnect, log] and return on invalid, handlePacket
\* otherwise.
decodeStep(w1, connId, conn, buffer, result) ==
    IF ~result.success
    THEN IF result.reason = "incomplete"
         THEN [w |-> w1, buffer |-> buffer, exit |-> "break"]
         ELSE [w |-> runEffects(w1, InvalidEffects(connId)),
               buffer |-> buffer, exit |-> "invalid"]
    ELSE handleStep(w1, connId, conn, buffer, result,
                    handlePacket([state |-> w1.state, connId |-> connId,
                                  packet |-> result.packet]))

withResult(w, connId, conn, buffer, result) ==
    decodeStep(Called(w, decodeCall(conn, buffer, result)),
               connId, conn, buffer, result)

\* A loop whose condition is buffer.length > 1: it leaves a last byte alone.
processLoopShort(w, connId, conn, buffer) ==
    IF Len(buffer) <= 1
    THEN [w |-> w, buffer |-> buffer, exit |-> "empty"]
    ELSE withResult(w, connId, conn, buffer,
                    decodePacket(buffer, conn.state))

\* The while loop of processBuffer. The result says how the function was
\* left: "break" and "empty" reach the write-back after the loop, "invalid"
\* and "removed" are the two early returns, "threw" is an exception that
\* leaves it.
processLoop(w, connId, conn, buffer) ==
    IF Len(buffer) = 0
    THEN [w |-> w, buffer |-> buffer, exit |-> "empty"]
    ELSE withResult(w, connId, conn, buffer,
                    decodePacket(buffer, conn.state))

\* A processBuffer that registers a connection id it does not know.
processBufferAdopting(w, connId) ==
    IF connId \notin DOMAIN w.state.connections
    THEN [w |-> [w EXCEPT !.state =
                    addConnection(@, [id |-> connId, state |-> "handshaking",
                                      readBuffer |-> <<>>])],
          buffer |-> <<>>, exit |-> "empty"]
    ELSE processLoop(w, connId, w.state.connections[connId],
                     w.state.connections[connId].readBuffer)

\* processBuffer without the write-back after the loop (main.ts:169-172).
processBufferNoWriteBack(w, connId) ==
    IF connId \notin DOMAIN w.state.connections
    THEN [w |-> w, buffer |-> <<>>, exit |-> "unknown"]
    ELSE processLoop(w, connId, w.state.connections[connId],
                     w.state.connections[connId].readBuffer)

\* A write-back that stores the buffer without its first byte.
writeBackShort(r, connId) ==
    IF r.exit \in {"empty", "break"}
    THEN [r EXCEPT !.w.state =
              updateConnection(@, connId, "readBuffer",
                               SubSeq(r.buffer, 2, Len(r.buffer)))]
    ELSE r

\* The write-back after the loop (main.ts:169-172); the early returns and an
\* exception skip it.
writeBack(r, connId) ==
    IF r.exit \in {"empty", "break"}
    THEN [r EXCEPT !.w.state =
              updateConnection(@, connId, "readBuffer", r.buffer)]
    ELSE r

processBuffer(w, connId) ==
    IF connId \notin DOMAIN w.state.connections
    THEN [w |-> w, buffer |-> <<>>, exit |-> "unknown"]
    ELSE writeBack(processLoop(w, connId, w.state.connections[connId],
                               w.state.connections[connId].readBuffer),
                   connId)

\* data(socket, data) as a function of the world (main.ts:206-228): the
\* bytes are appended to the connection's readBuffer, if there is such a
\* connection, and processBuffer is run.
onData(w, connId, bytes) ==
    processBuffer(
        [w EXCEPT !.state =
            IF connId \in DOMAIN @.connections
            THEN updateConnection(@, connId, "readBuffer",
                                  @.connections[connId].readBuffer \o bytes)
            ELSE @],
        connId)

\* Install the world an event handler leaves behind.
Install(w) ==
    /\ state' = w.state
    /\ sockets' = w.sockets
    /\ sinks' = w.sinks
    /\ sockStatus' = w.sockStatus
    /\ room' = w.room
    /\ written' = w.written
    /\ handled' = w.handled
    /\ phases' = w.phases
    /\ disconnects' = w.disconnects
    /\ calls' = w.calls

NoLimit == [limited |-> FALSE]

\* open(socket): crypto.randomUUID() is a fresh id; `script` is what this
\* client is going to send, `r` the transport's write window.
Open(c, script, r) ==
    /\ sockStatus[c] = "none"
    /\ \A d \in ConnIds : d < c => sockStatus[d] # "none"
    /\ sockets' = sockets \cup {c}
    /\ sinks' = MapSet(sinks, c, <<>>)
    /\ state' = addConnection(state, [id |-> c, state |-> "handshaking",
                                      readBuffer |-> <<>>])
    /\ sockStatus' = [sockStatus EXCEPT ![c] = "open"]
    /\ wire' = [wire EXCEPT ![c] = script]
    /\ room' = [room EXCEPT ![c] = r]
    /\ calls' = <<>>
    /\ pass' = [ev |-> "open", connId |-> c, buffer |-> <<>>,
                phase |-> "handshaking", exit |-> "none"]
    /\ phases' = [phases EXCEPT ![c] = <<"handshaking">>]
    /\ UNCHANGED <<written, rx, handled, disconnects, probe>>

\* What a data event leaves behind once processBuffer returned r.
Processed(c, known, w0, r) ==
    /\ Install(r.w)
    /\ pass' = [ev |-> "data", connId |-> c,
                buffer |-> IF known
                           THEN w0.state.connections[c].readBuffer
                           ELSE <<>>,
                phase |-> IF known
                          THEN w0.state.connections[c].state
                          ELSE "none",
                exit |-> r.exit]

\* data(socket, data): the next n bytes of the client's stream arrive.
Data(c, n) ==
    /\ sockStatus[c] \in {"open", "ended"}
    /\ n \in 1..Len(wire[c])
    /\ LET data == SubSeq(wire[c], 1, n)
           known == c \in DOMAIN state.connections
           w0 == [World EXCEPT !.state =
                      IF known
                      THEN updateConnection(@, c, "readBuffer",
                               @.connections[c].readBuffer \o data)
                      ELSE @]
       IN  Processed(c, known, w0, processBuffer(w0, c))
    /\ wire' = [wire EXCEPT ![c] = SubSeq(@, n + 1, Len(@))]
    /\ rx' = [rx EXCEPT ![c] = @ \o SubSeq(wire[c], 1, n)]
    /\ UNCHANGED probe

\* close(socket): the transport reports the connection closed.
Close(c) ==
    /\ sockStatus[c] \in {"open", "ended"}
    /\ state' = removeConnection(state, c)
    /\ sockets' = sockets \ {c}
    /\ sinks' = MapDelete(sinks, c)
    /\ sockStatus' = [sockStatus EXCEPT ![c] = "closed"]
    /\ calls' = <<>>
    /\ pass' = [ev |-> "close", connId |-> c, buffer |-> <<>>,
                phase |-> "none", exit |-> "none"]
    /\ UNCHANGED <<wire, room, written, rx, handled, phases, disconnects,
                   probe>>

\* drain(socket): the transport can take k more bytes and says so.
Drain(c, k) ==
    /\ sockStatus[c] = "open"
    /\ room[c].limited /\ room[c].n = 0
    /\ LET w == flushSink([World EXCEPT
                              !.room[c] = [limited |-> TRUE, n |-> k]], c)
       IN  /\ Install(w)
           /\ pass' = [ev |-> "drain", connId |-> c, buffer |-> <<>>,
                       phase |-> "none",
                       exit |-> IF Thrown(w) THEN "threw" ELSE "none"]
    /\ UNCHANGED <<wire, rx, probe>>

\* The program state after construction, and the transport and observation
\* variables before any event.
ServerInit ==
    /\ state = createInitialState
    /\ sockets = {}
    /\ sinks = <<>>
    /\ sockStatus = [c \in ConnIds |-> "none"]
    /\ wire = [c \in ConnIds |-> <<>>]
    /\ room = [c \in ConnIds |-> NoLimit]
    /\ written = [c \in ConnIds |-> <<>>]
    /\ rx = [c \in ConnIds |-> <<>>]
    /\ handled = [c \in ConnIds |-> <<>>]
    /\ phases = [c \in ConnIds |-> <<>>]
    /\ disconnects = [c \in ConnIds |-> 0]
    /\ calls = <<>>
    /\ pass = [ev |-> "init", connId |-> 0, buffer |-> <<>>,
               phase |-> "none", exit |-> "none"]

Init ==
    /\ ServerInit
    /\ probe = [op |-> "none"]


(***************************************************************************)
(* What clients send.  A frame is VarInt(length of id + body), the packet  *)
(* id, the body.  The catalogue holds the protocol's well-formed frames    *)
(* and malformed ones; a client's stream is a preamble followed by up to   *)
(* MaxFrames frames, the last of them any catalogue entry.                 *)
(***************************************************************************)
Frame(idBytes, body) == encodeVarInt(Len(idBytes) + Len(body)) \o idBytes \o body

\* protocolVersion 238, serverAddress "l", serverPort 25565
HandshakeFields == <<238, 1>> \o <<1, 108>> \o <<99, 221>>
PingPayload == <<0, 0, 0, 0, 0, 0, 1, 42>>
PingPayloadNeg == <<255, 255, 255, 255, 255, 255, 255, 254>>

FrameHS1 == Frame(<<0>>, HandshakeFields \o <<1>>)
FrameHS2 == Frame(<<0>>, HandshakeFields \o <<2>>)
FrameHS3 == Frame(<<0>>, HandshakeFields \o <<3>>)
FrameHSExtra == Frame(<<0>>, HandshakeFields \o <<1, 0>>)
FrameHSCut == Frame(<<0>>, HandshakeFields)
FrameSR == Frame(<<0>>, <<>>)
FrameSRBody == Frame(<<0>>, <<7>>)
FramePing == Frame(<<1>>, PingPayload)
FramePingNeg == Frame(<<1>>, PingPayloadNeg)
FramePingLong == Frame(<<1>>, PingPayload \o <<9>>)
FramePingShort == Frame(<<1>>, SubSeq(PingPayload, 1, 7))
FrameUnknown == Frame(<<5>>, <<>>)
\* a frame of declared length 0
FrameLen0 == <<0>>
\* a frame whose packet-id VarInt is not terminated inside the frame
FrameIdCut == <<1, 128>>
\* six bytes with the continuation bit set: no VarInt at all
BadLength == <<128, 128, 128, 128, 128, 128>>

Catalogue ==
    { FrameHS1, FrameHS2, FrameHS3, FrameHSExtra, FrameHSCut, FrameSR,
      FrameSRBody, FramePing, FramePingNeg, FramePingLong, FramePingShort,
      FrameUnknown, FrameLen0, FrameIdCut, BadLength }

Preambles ==
    { <<>>, FrameHS1, FrameHS2, FrameHS1 \o FrameSR,
      FrameHS1 \o FrameSR \o FrameUnknown }

\* Frames that may stand anywhere in a stream; the other catalogue entries
\* only end one.
Common == { FrameHS1, FrameSR, FramePing, FrameUnknown }

RECURSIVE Commons(_)
Commons(n) ==
    IF n = 0 THEN { <<>> }
    ELSE LET shorter == Commons(n - 1)
         IN  shorter \cup { t \o f : t \in shorter, f \in Common }

Tails(n) ==
    IF n = 0 THEN { <<>> }
    ELSE { <<>> } \cup { t \o f : t \in Commons(n - 1), f \in Catalogue }

\* The recorded exchange of a server-list ping: a Handshake for "localhost",
\* port 25565, protocol 238, next state 1, then a StatusRequest.
Localhost == <<108, 111, 99, 97, 108, 104, 111, 115, 116>>
FrameHSLocalhost ==
    <<16, 0, 238, 1, 9>> \o Localhost \o <<99, 221, 1>>
ScenarioLocalhost == FrameHSLocalhost \o <<1, 0>>

Scripts ==
    ({ p \o t : p \in Preambles, t \in Tails(MaxFrames) } \ { <<>> })
        \cup { ScenarioLocalhost }

\* The connections the framing specification opens.
One == {1}

Next ==
    \/ \E c \in One : /\ sockStatus[c] = "none"
                       /\ \E script \in Scripts : Open(c, script, NoLimit)
    \/ \E c \in One : \E n \in 1..Len(wire[c]) : Data(c, n)
    \/ \E c \in One : Close(c)

Spec == Init /\ [][Next]_vars

(***************************************************************************)
(* The interleaving specification: several clients are connected at the    *)
(* same time and their data and close events arrive in any order.  Bun     *)
(* runs one callback at a time, so an interleaving is a sequence of whole  *)
(* events.                                                                 *)
(***************************************************************************)
\* What each of the clients may send: a server-list ping, a login attempt
\* followed by a frame the login phase has no decoder for, a status exchange
\* broken by an unknown packet id, and a ping sent before any handshake.
PeerScripts ==
    { FrameHS1 \o FrameSR \o FramePing,
      FrameHS2 \o FrameSR,
      FrameHS1 \o FrameUnknown \o FrameSR,
      FramePing }

\* The connections the interleaving specification opens.
Peers == {1, 2}

\* The sizes of the next data event of c: three bytes, or all that is left
\* of the stream (every split of a stream is the subject of Spec).
Chunks(c) == { n \in 1..Len(wire[c]) : n = 3 \/ n = Len(wire[c]) }

NextMulti ==
    \/ \E c \in Peers : /\ sockStatus[c] = "none"
                        /\ \E script \in PeerScripts :
                               Open(c, script, NoLimit)
    \/ \E c \in Peers : \E n \in Chunks(c) : Data(c, n)
    \/ \E c \in Peers : Close(c)

SpecMulti == Init /\ [][NextMulti]_vars

(***************************************************************************)
(* The splitting specification: one client whose stream holds a frame that *)
(* ends inside its packet-id VarInt, or declares length 0, with further    *)
(* bytes behind it; the stream arrives in data events of any sizes.        *)
(***************************************************************************)
\* a one-byte frame whose only byte is the first of a two-byte packet id
FrameIdCutOne == <<1, 129>>

SplitScripts ==
    { p \o f \o t :
        p \in { <<>>, FrameHS1, FrameHS2 },
        f \in { FrameIdCut, FrameIdCutOne, FrameLen0, FrameSR, FrameUnknown },
        t \in { <<>>, <<0>>, <<1>>, <<1, 0>>, <<0, 1, 0>> } }

NextSplit ==
    \/ \E c \in One : /\ sockStatus[c] = "none"
                       /\ \E script \in SplitScripts :
                              Open(c, script, NoLimit)
    \/ \E c \in One : \E n \in 1..Len(wire[c]) : Data(c, n)
    \/ \E c \in One : Close(c)

SpecSplit == Init /\ [][NextSplit]_vars

(***************************************************************************)
(* The backpressure specification: the transport takes a limited number of *)
(* bytes per write and signals drain when it can take more, and goes on    *)
(* signalling it (weak fairness of Drain).  A write the transport takes    *)
(* only a part of ends in the exception of flushSink.                      *)
(***************************************************************************)
\* Streams that make the server send: two pings, a status request and a
\* ping, and a ping followed by a frame that gets the client disconnected.
DrainScripts ==
    { FrameHS1 \o FramePing \o FramePingNeg,
      FrameHS1 \o FrameSR \o FramePing,
      FrameHS1 \o FramePing \o FrameUnknown }

\* Bytes the transport takes at once: on a fresh socket, and after a drain.
FirstRooms == {0, 4}
DrainRooms == {3, 64}

NextDrain ==
    \/ \E c \in One : /\ sockStatus[c] = "none"
                      /\ \E script \in DrainScripts : \E k \in FirstRooms :
                             Open(c, script, [limited |-> TRUE, n |-> k])
    \/ \E c \in One : \E n \in Chunks(c) : Data(c, n)
    \/ \E c \in One : \E k \in DrainRooms : Drain(c, k)
    \/ \E c \in One : Close(c)

SpecDrain ==
    /\ Init
    /\ [][NextDrain]_vars
    /\ \A c \in One : WF_vars(\E k \in DrainRooms : Drain(c, k))

(***************************************************************************)
(* The codec specification: the pure functions of the codec and of the     *)
(* handlers, called directly.  The initial state draws the function and   *)
(* its arguments from bounded sets; the action of that function replaces   *)
(* `probe` by the call with its result.  The server variables stay as they *)
(* were after construction.                                                *)
(***************************************************************************)
\* longest buffer built freely from ProbeBytes
MaxBufLen == 4
\* every integer up to this one is encoded, next to the boundary values
MaxSmall == 300

\* Byte values that make every branch of the framing happen: declared
\* lengths 0 to 3, packet ids 0 to 3, and bytes with the continuation bit
\* (128 carries the value 0, 129 the value 1).  A VarInt built from them
\* stays below 2^31.
ProbeBytes == {0, 1, 2, 3, 128, 129}

ProbeBuffers ==
    UNION { [1..k -> ProbeBytes] : k \in 0..MaxBufLen }
        \cup Catalogue
        \cup { f \o t : f \in Catalogue, t \in { <<0>>, <<1, 0>>, <<128>> } }
        \cup { <<128, 128, 128, 128, 128, 0>> \o t :
                t \in { <<>>, <<0>>, <<1, 0>> } }

ConnectionStates == {"handshaking", "status", "login", "play"}

\* Values of a VarInt: the powers of two, their predecessors, the largest
\* 31-bit value and every small value.
VarIntValues ==
    { Pow2(k) : k \in 0..30 } \cup { Pow2(k) - 1 : k \in 0..30 }
        \cup { 2147483647 } \cup 0..MaxSmall

\* Bodies of a PingRequest: the 64-bit payloads whose first and last byte and
\* whose six middle bytes range over the boundary byte values, and one body
\* with eight different bytes.
PingBytes == {0, 1, 127, 128, 255}
PingBodies ==
    { <<a, m, m, m, m, m, m, z>> : a \in PingBytes, m \in PingBytes,
                                  z \in PingBytes }
        \cup { <<1, 2, 3, 4, 5, 6, 7, 8>> }

\* Server states with every connection id registered.
ProbeStates ==
    { [connections |-> [d \in ConnIds |->
                           [id |-> d, state |-> ph[d], readBuffer |-> rb]],
       currentTick |-> 0] :
      ph \in [ConnIds -> {"handshaking", "status", "login"}],
      rb \in { <<>>, <<1>> } }

\* Packets a handler may be given; the last one has a type that is not in
\* IncomingPacket.
ProbePackets ==
    { [type |-> "status_request"] }
        \cup { [type |-> "ping_request", payload |-> getBigInt64(b)] :
               b \in { PingPayload, PingPayloadNeg } }
        \cup { [type |-> "handshake", protocolVersion |-> 238,
                serverAddress |-> <<108>>, serverPort |-> 25565,
                nextState |-> k] : k \in 1..3 }
        \cup { [type |-> "login_start"] }

\* An id that no connection of the registry has.
AbsentConn == MaxConns + 1

\* Outgoing packets: a PingResponse for every ping body, and StatusResponses
\* with description texts of several lengths, the configured one among them,
\* and texts with a quotation mark, a backslash and control characters.
OutgoingPackets ==
    { [type |-> "ping_response", payload |-> getBigInt64(b)] : b \in PingBodies }
        \cup { [type |-> "status_response",
                response |-> [ConfiguredResponse EXCEPT !.description.text = t]] :
               t \in { <<>>, <<65>>, Localhost, DescriptionText,
                       DescriptionText \o DescriptionText,
                       <<97, 34, 98>>, <<92, 110>>, <<9, 1, 31, 127>>,
                       <<8, 12, 13, 16>> } }

\* Packets that are not OutgoingPackets.
UnknownPackets ==
    { [type |-> "ping_request", payload |-> 5],
      [type |-> "handshake", payload |-> -2],
      [type |-> "login_success"] }

\* Effect lists: every list of up to MaxEffects effects drawn from a
\* SendPacket, a Disconnect and a Log per connection.
MaxEffects == 3
ProbeEffects ==
    UNION { { SendPacket(c, [type |-> "ping_response",
                             payload |-> getBigInt64(PingPayload)]),
              Disconnect(c, "bye"),
              Log(IF c = 1 THEN "info" ELSE "error", <<"m", ToString(c)>>) } :
            c \in ConnIds }
EffectLists == UNION { [1..k -> ProbeEffects] : k \in 0..MaxEffects }

\* What a data event delivers in the probes of the data handler.
DataChunks ==
    { FrameSR, FramePing, FrameUnknown, FrameHS1, FrameSR \o FramePing,
      <<1>> }

\* The ConnectionState enum of the ProtocolState record.
HANDSHAKING == 0
STATUS == 1
LOGIN == 2
PLAY == 3
ConnectionStateEnum == { HANDSHAKING, STATUS, LOGIN, PLAY }

createProtocolState(connectionId) ==
    [connectionId |-> connectionId, state |-> HANDSHAKING]

\* transitionState assigns the requested state.
transitionState(st, newState) == [st EXCEPT !.state = newState]

\* One or two transitionState requests on a new ProtocolState.
TransitionRequests ==
    { <<a>> : a \in ConnectionStateEnum }
    \cup { <<a, b>> : a, b \in ConnectionStateEnum }

\* Handshake bodies, well-formed and not: a protocol version, an address
\* length (also one that declares more than follows, and one whose VarInt
\* is not terminated), address bytes (ASCII, a two-byte character, bytes
\* that are not UTF-8, a byte order mark), 0 to 2 port bytes, and a next
\* state (also missing, unterminated, or followed by a stray byte); and
\* bodies with a field written as a VarInt of six bytes.
HandshakeBodies ==
    { pv \o al \o ad \o po \o ns :
        pv \in { <<>>, <<4>>, <<238, 1>>, <<129>> },
        al \in { <<0>>, <<1>>, <<2>>, <<3>>, <<9>>, <<128>>, <<129>>,
                 <<129, 0>> },
        ad \in { <<>>, <<108>>, <<108, 111>> },
        po \in { <<>>, <<99>>, <<99, 221>> },
        ns \in { <<>>, <<1>>, <<2>>, <<129>>, <<129, 0>>, <<1, 1>> } }
    \cup
    { pv \o al \o ad \o po \o ns :
        pv \in { <<4>>, <<238, 1>> },
        al \in { <<1>>, <<2>>, <<3>>, <<4>>, <<9>> },
        ad \in { <<195, 40>>, <<255>>, <<195, 167>>, <<239, 187, 191, 97>> },
        po \in { <<>>, <<99>>, <<99, 221>> },
        ns \in { <<>>, <<1>>, <<2>>, <<129>>, <<129, 0>>, <<1, 1>> } }
    \cup
    { pv \o al \o <<99, 221>> \o ns :
        pv \in { <<47>>, <<128, 128, 128, 128, 128, 0>> },
        al \in { <<0>>, <<128, 128, 128, 128, 128, 0>> },
        ns \in { <<>>, <<1>>, <<128, 128, 128, 128, 128, 0>>,
                 <<128, 128, 128, 128, 128, 128>> } }
\* What the client has sent behind the Handshake frame.
FollowingBytes == { <<>>, <<1>>, <<1, 0>>, <<2, 108>> }

\* The server state every connection of which is in status with an empty
\* read buffer.
AllInStatus ==
    [connections |-> [d \in ConnIds |->
                         [id |-> d, state |-> "status", readBuffer |-> <<>>]],
     currentTick |-> 0]

\* The calls to make: the function and its arguments.
Inputs ==
    { [op |-> "input", fn |-> "varint", value |-> v] : v \in VarIntValues }
    \cup
    UNION { { [op |-> "input", fn |-> "prefix", value |-> v, cut |-> k] :
              k \in 1..(Len(encodeVarInt(v)) - 1) } : v \in VarIntValues }
    \cup
    { [op |-> "input", fn |-> "decodePacket", buffer |-> b, state |-> st] :
      b \in ProbeBuffers, st \in ConnectionStates }
    \cup
    { [op |-> "input", fn |-> "handlePacket", state |-> st, connId |-> c,
       packet |-> p] : st \in ProbeStates, c \in ConnIds \cup {AbsentConn},
                       p \in ProbePackets }
    \cup
    { [op |-> "input", fn |-> "ping", state |-> AllInStatus, connId |-> c,
       body |-> b] : c \in ConnIds, b \in PingBodies }
    \cup
    { [op |-> "input", fn |-> "encodePacket", packet |-> p] :
      p \in OutgoingPackets }
    \cup
    { [op |-> "input", fn |-> "encodeUnknown", packet |-> p] :
      p \in UnknownPackets }
    \cup
    { [op |-> "input", fn |-> "runEffects", effects |-> e] :
      e \in EffectLists }
    \cup
    { [op |-> "input", fn |-> "handshake", body |-> b, tail |-> t] :
      b \in HandshakeBodies, t \in FollowingBytes }
    \cup
    { [op |-> "input", fn |-> "data", connId |-> c, registered |-> r,
       bytes |-> b] :
      c \in ConnIds \cup {AbsentConn}, r \in BOOLEAN, b \in DataChunks }
    \cup
    { [op |-> "input", fn |-> "handlerResult", connId |-> c, effects |-> e] :
      c \in ConnIds, e \in { e \in EffectLists : Len(e) = 1 } }
    \cup
    { [op |-> "input", fn |-> "transitionState", connId |-> c,
       requests |-> r] : c \in ConnIds, r \in TransitionRequests }

InitCodec ==
    /\ ServerInit
    /\ probe \in Inputs

\* The server variables are not touched by a direct call.
Unchanged ==
    UNCHANGED <<state, sockets, sinks, sockStatus, wire, room, written,
                rx, handled, phases, disconnects, calls, pass>>

Chosen(fn) == probe.op = "input" /\ probe.fn = fn

\* encodeVarInt(v), then decodeVarInt on the encoding.
ProbeVarInt ==
    /\ Chosen("varint")
    /\ probe' = [op |-> "varint", value |-> probe.value,
                 encoded |-> encodeVarInt(probe.value),
                 decoded |-> decodeVarInt(encodeVarInt(probe.value), 0)]
    /\ Unchanged

\* decodeVarInt on the first `cut` bytes of encodeVarInt(v).
ProbePrefix ==
    /\ Chosen("prefix")
    /\ probe' = [op |-> "prefix", value |-> probe.value, cut |-> probe.cut,
                 buffer |-> SubSeq(encodeVarInt(probe.value), 1, probe.cut),
                 decoded |-> decodeVarInt(SubSeq(encodeVarInt(probe.value),
                                                 1, probe.cut), 0)]
    /\ Unchanged

\* decodePacket(buffer, state).
ProbeDecode ==
    /\ Chosen("decodePacket")
    /\ probe' = [op |-> "decodePacket", buffer |-> probe.buffer,
                 state |-> probe.state,
                 result |-> decodePacket(probe.buffer, probe.state)]
    /\ Unchanged

\* handlePacket(ctx).
ProbeHandle ==
    /\ Chosen("handlePacket")
    /\ probe' = [op |-> "handlePacket", state |-> probe.state,
                 connId |-> probe.connId, packet |-> probe.packet,
                 result |-> handlePacket([state |-> probe.state,
                                          connId |-> probe.connId,
                                          packet |-> probe.packet])]
    /\ Unchanged

\* A PingRequest frame with the given body through decodePacket under
\* status and handlePacket.
PingOutcome(st, c, result) ==
    IF result.success
    THEN handlePacket([state |-> st, connId |-> c, packet |-> result.packet])
    ELSE [newState |-> st, effects |-> <<>>]

ProbePing ==
    /\ Chosen("ping")
    /\ probe' = [op |-> "ping", state |-> probe.state,
                 connId |-> probe.connId, body |-> probe.body,
                 result |-> PingOutcome(probe.state, probe.connId,
                                decodePacket(Frame(<<1>>, probe.body),
                                             "status"))]
    /\ Unchanged

\* encodePacket(packet), and decodePacket on its output under status.
ProbeEncode ==
    /\ Chosen("encodePacket")
    /\ probe' = [op |-> "encodePacket", packet |-> probe.packet,
                 encoded |-> encodePacket(probe.packet),
                 decoded |-> decodePacket(encodePacket(probe.packet),
                                          "status")]
    /\ Unchanged

\* encodePacket(packet) for a packet of a type it has no case for.
ProbeEncodeUnknown ==
    /\ Chosen("encodeUnknown")
    /\ probe' = [op |-> "encodeUnknown", packet |-> probe.packet,
                 result |-> encodePacket(probe.packet)]
    /\ Unchanged

\* The world of a server on which every connection id is open, in status,
\* with an empty sink.
OpenWorld ==
    [state |-> AllInStatus,
     sockets |-> ConnIds,
     sinks |-> [c \in ConnIds |-> <<>>],
     sockStatus |-> [c \in ConnIds |-> "open"],
     room |-> [c \in ConnIds |-> NoLimit],
     written |-> [c \in ConnIds |-> <<>>],
     handled |-> [c \in ConnIds |-> <<>>],
     phases |-> [c \in ConnIds |-> <<"handshaking", "status">>],
     disconnects |-> [c \in ConnIds |-> 0],
     calls |-> <<>>]

\* runEffects(effects, interpreter) on that server: the interpreter calls it
\* makes and what they leave behind.
ProbeRunEffects ==
    /\ Chosen("runEffects")
    /\ probe' = [op |-> "runEffects", effects |-> probe.effects,
                 calls |-> runEffects(OpenWorld, probe.effects).calls,
                 written |-> runEffects(OpenWorld, probe.effects).written,
                 sockets |-> runEffects(OpenWorld, probe.effects).sockets]
    /\ Unchanged

\* decodePacket under handshaking on a frame with id 0 and the given body,
\* with the following bytes behind it and without them.
ProbeHandshake ==
    /\ Chosen("handshake")
    /\ probe' = [op |-> "handshake", body |-> probe.body, tail |-> probe.tail,
                 result |-> decodePacket(Frame(<<0>>, probe.body)
                                             \o probe.tail, "handshaking"),
                 alone |-> decodePacket(Frame(<<0>>, probe.body),
                                        "handshaking")]
    /\ Unchanged

\* The ProtocolState after createProtocolState and after each of the
\* transitionState requests made on it.
RECURSIVE transitionAll(_, _)
transitionAll(st, requests) ==
    IF requests = <<>> THEN <<st>>
    ELSE <<st>> \o transitionAll(transitionState(st, Head(requests)),
                                 Tail(requests))

ProbeTransition ==
    /\ Chosen("transitionState")
    /\ probe' = [op |-> "transitionState", requests |-> probe.requests,
                 states |-> transitionAll(createProtocolState(probe.connId),
                                          probe.requests)]
    /\ Unchanged

\* The world of the open server, with connection c closed and removed when
\* it is not to be registered (an id outside ConnIds was never opened).
WorldFor(c, registered) ==
    IF registered \/ c \notin ConnIds THEN OpenWorld
    ELSE [OpenWorld EXCEPT !.state = removeConnection(@, c),
                           !.sockets = @ \ {c},
                           !.sinks = MapDelete(@, c),
                           !.sockStatus[c] = "closed"]

\* A data event for a connection id on that server.
ProbeData ==
    /\ Chosen("data")
    /\ LET w == WorldFor(probe.connId, probe.registered)
           r == onData(w, probe.connId, probe.bytes)
       IN  probe' = [op |-> "data", connId |-> probe.connId,
                     bytes |-> probe.bytes, before |-> w,
                     after |-> [r.w EXCEPT !.calls = <<>>],
                     calls |-> r.w.calls, exit |-> r.exit]
    /\ Unchanged

\* The success branch of the loop (main.ts:141-165) when the state the
\* handler returned no longer has the connection: the buffer holds two
\* StatusRequest frames, the first has been decoded, and the handler result
\* carries the given effects.
ProbeHandlerResult ==
    /\ Chosen("handlerResult")
    /\ LET c == probe.connId
           buffer == FrameSR \o FrameSR
           gone == [newState |-> removeConnection(OpenWorld.state, c),
                    effects |-> probe.effects]
           r == handleStep(OpenWorld, c, OpenWorld.state.connections[c],
                           buffer, decodePacket(buffer, "status"), gone)
       IN  probe' = [op |-> "handlerResult", connId |-> c,
                     effects |-> probe.effects, returned |-> gone.newState,
                     after |-> [r.w EXCEPT !.calls = <<>>],
                     calls |-> r.w.calls, exit |-> r.exit]
    /\ Unchanged

NextCodec ==
    \/ ProbeVarInt
    \/ ProbePrefix
    \/ ProbeDecode
    \/ ProbeHandle
    \/ ProbePing
    \/ ProbeEncode
    \/ ProbeEncodeUnknown
    \/ ProbeRunEffects
    \/ ProbeHandshake
    \/ ProbeTransition
    \/ ProbeData
    \/ ProbeHandlerResult

SpecCodec == InitCodec /\ [][NextCodec]_vars



(***************************************************************************)
(* Vocabulary of the properties.  These definitions describe byte streams  *)
(* by the wire format alone and do not use the decoder.                    *)
(***************************************************************************)
StartsWith(b, p) == Len(b) >= Len(p) /\ SubSeq(b, 1, Len(p)) = p

\* b begins with a complete frame whose length and packet id take one byte
\* each: b[1] is the declared length, b[2] the id, the body follows.
HasPlainFrame(b) ==
    /\ Len(b) >= 2
    /\ b[1] >= 1 /\ b[1] < 128
    /\ Len(b) >= 1 + b[1]
    /\ b[2] < 128
PlainId(b) == b[2]
PlainBody(b) == SubSeq(b, 3, 1 + b[1])

\* The (phase, packet id) pairs that have a body decoder.
DecoderTable ==
    { <<"handshaking", 0>>, <<"status", 0>>, <<"status", 1>> }

\* The frames a conforming client may send in a phase, and the phase that
\* follows each.
LegalFrames(ph) ==
    IF ph = "handshaking" THEN { FrameHS1, FrameHS2 }
    ELSE IF ph = "status" THEN { FrameSR, FramePing, FramePingNeg }
    ELSE {}
PhaseAfter(ph, f) ==
    IF f = FrameHS1 THEN "status" ELSE IF f = FrameHS2 THEN "login" ELSE ph

\* b is a sequence of frames, each legal in the phase it is read in,
\* starting from phase ph.
RECURSIVE WellFormed(_, _)
WellFormed(b, ph) ==
    \/ b = <<>>
    \/ \E f \in LegalFrames(ph) :
          /\ StartsWith(b, f)
          /\ WellFormed(SubSeq(b, Len(f) + 1, Len(b)), PhaseAfter(ph, f))

Registered(c) == c \in DOMAIN state.connections
PhaseOf(c) == state.connections[c].state
ReadBufferOf(c) == state.connections[c].readBuffer

DecodeCalls == { i \in 1..Len(calls) : calls[i].op = "decodePacket" }
HandleCalls == { i \in 1..Len(calls) : calls[i].op = "handlePacket" }
DisconnectCalls == { i \in 1..Len(calls) : calls[i].op = "disconnect" }


(***************************************************************************)
(* C1  Fragmentation invariance.                                           *)
(***************************************************************************)
\* What a fresh server holds after open(c) and one single data event that
\* delivers `bytes`.
OnePass(c, bytes) ==
    processBuffer(
        [state |-> addConnection(createInitialState,
                                 [id |-> c, state |-> "handshaking",
                                  readBuffer |-> bytes]),
         sockets |-> {c},
         sinks |-> MapSet(<<>>, c, <<>>),
         sockStatus |-> [d \in ConnIds |-> IF d = c THEN "open" ELSE "none"],
         room |-> [d \in ConnIds |-> NoLimit],
         written |-> [d \in ConnIds |-> <<>>],
         handled |-> [d \in ConnIds |-> <<>>],
         phases |-> [d \in ConnIds |->
                        IF d = c THEN <<"handshaking">> ELSE <<>>],
         disconnects |-> [d \in ConnIds |-> 0],
         calls |-> <<>>], c).w

C2_PhaseGatedCollision ==
    \A i \in DecodeCalls :
        StartsWith(calls[i].buffer, FrameSR) =>
            /\ calls[i].state = "handshaking" =>
                   (~calls[i].success /\ calls[i].reason = "invalid")
            /\ calls[i].state = "status" =>
                   /\ calls[i].success
                   /\ i + 1 \in HandleCalls
                   /\ calls[i + 1].packet = [type |-> "status_request"]

\* C2 witness: the frame 01 00 was decoded while the connection was in
\* handshaking.
C2_Witness ==
    \E i \in DecodeCalls :
        /\ StartsWith(calls[i].buffer, FrameSR)
        /\ calls[i].state = "handshaking"

(***************************************************************************)
(* C3  Transition correctness.                                             *)
(***************************************************************************)
\* C3 (as claimed): a Handshake frame processed in phase handshaking moves
\* the connection to status when nextState = 1 and to login when
\* nextState = 2; with any other nextState the frame is Invalid and the
\* phase stays handshaking.
C3_TransitionCorrectness ==
    (pass.ev = "data" /\ pass.phase = "handshaking") =>
        \A k \in 0..3 :
            StartsWith(pass.buffer, Frame(<<0>>, HandshakeFields \o <<k>>)) =>
                /\ Registered(pass.connId)
                /\ k = 1 => PhaseOf(pass.connId) = "status"
                /\ k = 2 => PhaseOf(pass.connId) = "login"
                /\ k \notin {1, 2} =>
                       /\ PhaseOf(pass.connId) = "handshaking"
                       /\ pass.exit = "invalid"

(***************************************************************************)
(* C4  The phase only steps handshaking -> status or handshaking -> login. *)
(***************************************************************************)
\* C4: over any sequence of open, data and close events the phases a
\* connection goes through are handshaking alone, or handshaking followed by
\* exactly one of status and login; the registry holds the last of them.
C4_PhaseSteps ==
    \A c \in ConnIds :
        /\ phases[c] \in { <<>>, <<"handshaking">>,
                           <<"handshaking", "status">>,
                           <<"handshaking", "login">> }
        /\ Registered(c) =>
               /\ phases[c] # <<>>
               /\ PhaseOf(c) = phases[c][Len(phases[c])]

\* C4 witness: a connection left handshaking, handled a further packet in a
\* later data event and was then closed.
C4_Witness ==
    /\ sockStatus[1] = "closed"
    /\ phases[1] = <<"handshaking", "status">>
    /\ Len(handled[1]) >= 2

(***************************************************************************)
(* C5  The stored readBuffer after a pass.                                 *)
(***************************************************************************)
\* The byte at position e of b as the VarInt reader finds it: a position
\* behind the end of b reads as 0.
ByteAt(b, e) == IF e <= Len(b) THEN b[e] ELSE 0

\* The length VarInt at the head of b as decodePacket reads it: the number
\* of bytes read, which is the position of the first byte without the
\* continuation bit among the first six positions and no further than one
\* behind the end of b (0 when there is none: the read fails), and the
\* value read.
LengthEnd(b) ==
    LET ends == { e \in 1..Min(Len(b) + 1, 6) : ByteAt(b, e) < 128 }
    IN  IF ends = {} THEN 0
        ELSE CHOOSE e \in ends : \A f \in ends : e <= f
Group(x, e) == IF x = 0 THEN 0 ELSE x * Pow2(7 * (e - 1))
RECURSIVE Declared(_, _)
Declared(b, e) ==
    IF e = 0 THEN 0 ELSE Group(ByteAt(b, e) % 128, e) + Declared(b, e - 1)

\* packetEnd: the number of bytes the frame at the head of b occupies, its
\* length prefix and the length it declares (0 when the prefix cannot be
\* read).
FrameSize(b) ==
    IF LengthEnd(b) = 0 THEN 0 ELSE LengthEnd(b) + Declared(b, LengthEnd(b))

\* b begins with a complete frame: it has two bytes or more, its length
\* VarInt can be read and the bytes the frame occupies are all there.
HoldsCompleteFrame(b) ==
    /\ Len(b) >= 2
    /\ LengthEnd(b) > 0
    /\ FrameSize(b) <= Len(b)

\* C5 (as claimed): after every processBuffer pass, however it ended, the
\* stored readBuffer is empty or holds one frame that is not complete yet.
C5_BufferAfterPass ==
    (pass.ev = "data" /\ Registered(pass.connId)) =>
        \/ ReadBufferOf(pass.connId) = <<>>
        \/ ~HoldsCompleteFrame(ReadBufferOf(pass.connId))

(***************************************************************************)
(* C6  A malformed length VarInt.                                          *)
(***************************************************************************)
\* C6 (as claimed): when the buffer of a pass begins with five bytes that all
\* carry the continuation bit, the pass ends Invalid and a Disconnect is
\* executed for the connection.
C6_MalformedLengthInvalid ==
    ( /\ pass.ev = "data"
      /\ Len(pass.buffer) >= 5
      /\ \A j \in 1..5 : pass.buffer[j] >= 128 ) =>
        /\ pass.exit = "invalid"
        /\ \E i \in DisconnectCalls : calls[i].connId = pass.connId

(***************************************************************************)
(* C7  A body decoder consumes the body exactly.                           *)
(***************************************************************************)
\* The number of bytes decodeVarInt reads at 0-based offset `off` of b (0
\* when the read fails), and the value read.
FieldEnd(b, off) == LengthEnd(subarray(b, off))
FieldValue(b, off) == Declared(subarray(b, off), FieldEnd(b, off))

\* body is exactly VarInt, String, UInt16, VarInt.
HandshakeFits(body) ==
    LET n1 == FieldEnd(body, 0)
        n2 == FieldEnd(body, n1)
        sl == FieldValue(body, n1)
        n3 == FieldEnd(body, n1 + n2 + sl + 2)
    IN  /\ n1 > 0 /\ n2 > 0
        /\ n1 + n2 + sl + 2 < Len(body)
        /\ n3 > 0
        /\ n1 + n2 + sl + 2 + n3 = Len(body)

\* The number of bytes the fields of a status packet occupy: a Status
\* Request has no field, a Ping Request has one Long, the eight bytes that
\* decodePingRequest reads.
StatusFields(id) == IF id = 0 THEN 0 ELSE 8

\* The body is neither longer nor shorter than what the fields of the packet
\* occupy.  This is the exactness the decoders are held to, not the test
\* they make: decodePingRequest refuses a body only when it is shorter.
FieldsFillBody(ph, id, body) ==
    IF ph = "handshaking" THEN HandshakeFits(body)
    ELSE Len(body) = StatusFields(id)

\* C7 (as claimed): for every entry of the decoder table, a complete frame
\* whose body is longer or shorter than the packet's fields is not decoded
\* successfully.
C7_ExactBodyLength ==
    \A i \in DecodeCalls :
        LET b == calls[i].buffer
        IN  ( /\ HasPlainFrame(b)
              /\ <<calls[i].state, PlainId(b)>> \in DecoderTable
              /\ ~FieldsFillBody(calls[i].state, PlainId(b), PlainBody(b)) )
            => ~calls[i].success

(***************************************************************************)
(* C8  A (phase, id) pair without a decoder.                               *)
(***************************************************************************)
\* C8: a complete frame whose (phase, packet id) pair has no decoder is
\* Invalid: the pass ends there, the next call is the Disconnect of this
\* connection, followed by the error log only, and handlePacket is not
\* called for the frame.  Login and play have no decoder for any frame of
\* the catalogue.
C8_NoDecoderInvalid ==
    /\ \A ph \in {"login", "play"} : \A f \in Catalogue :
           HasPlainFrame(f) =>
               LET r == decodePacket(f, ph)
               IN  ~r.success /\ r.reason = "invalid"
    /\ \A i \in DecodeCalls :
           LET b == calls[i].buffer
           IN  ( /\ HasPlainFrame(b)
                 /\ <<calls[i].state, PlainId(b)>> \notin DecoderTable )
               => /\ ~calls[i].success
                  /\ calls[i].reason = "invalid"
                  /\ pass.exit = "invalid"
                  /\ Len(calls) = i + 2
                  /\ calls[i + 1].op = "disconnect"
                  /\ calls[i + 1].connId = pass.connId
                  /\ calls[i + 2].op = "log"

\* C8 witness: a complete frame was decoded while the connection was in
\* login, a phase without any decoder.
C8_Witness ==
    \E i \in DecodeCalls :
        /\ HasPlainFrame(calls[i].buffer)
        /\ calls[i].state = "login"

(***************************************************************************)
(* C9  An invalid frame ends the pass.                                     *)
(***************************************************************************)
\* C9: a pass executes a Disconnect exactly when it meets an Invalid frame.
\* The Disconnect names the connection of the pass and directly follows the
\* decode that failed; after it come the error log and nothing else, so no
\* later frame of the buffer is decoded or handled.  Every decode before it
\* succeeded and was directly followed by handlePacket for its packet.
C9_InvalidStopsPass ==
    pass.ev = "data" =>
        /\ (pass.exit = "invalid") = (DisconnectCalls # {})
        /\ \A i \in DisconnectCalls :
               /\ i - 1 \in DecodeCalls
               /\ calls[i - 1].reason = "invalid"
               /\ calls[i].connId = pass.connId
               /\ Len(calls) = i + 1
               /\ calls[i + 1].op = "log"
               /\ calls[i + 1].level = "error"
               /\ \A j \in DecodeCalls :
                      j < i - 1 =>
                          /\ calls[j].success
                          /\ j + 1 \in HandleCalls
               /\ Cardinality(HandleCalls) = Cardinality(DecodeCalls) - 1

\* The bytes of pass.buffer that the decode calls of the pass went over.
RECURSIVE ConsumedUpTo(_)
ConsumedUpTo(i) ==
    IF i = 0 THEN 0
    ELSE (IF calls[i].op = "decodePacket" THEN calls[i].consumed ELSE 0)
         + ConsumedUpTo(i - 1)

\* C9 witness: a pass handled a packet, then met an invalid frame with more
\* bytes behind it in the same buffer.
C9_Witness ==
    /\ pass.ev = "data" /\ pass.exit = "invalid"
    /\ HandleCalls # {}
    /\ ConsumedUpTo(Len(calls)) + 2 <= Len(pass.buffer)

(***************************************************************************)
(* C10  Disconnect and the registry.                                       *)
(***************************************************************************)
\* The Disconnect effects executed for c before the last event.
DisconnectsBefore(c) ==
    disconnects[c]
        - Cardinality({ i \in DisconnectCalls : calls[i].connId = c })

\* C10 (as claimed): once a Disconnect effect has been executed for a
\* connection it has no entry in state.connections, and a later data event
\* for it decodes and handles nothing.
C10_DisconnectPurges ==
    \A c \in ConnIds :
        /\ disconnects[c] > 0 => ~Registered(c)
        /\ (pass.ev = "data" /\ pass.connId = c /\ DisconnectsBefore(c) > 0)
               => (DecodeCalls = {} /\ HandleCalls = {})


(***************************************************************************)
(* C11  Packets of one connection are handled in arrival order.            *)
(***************************************************************************)
SendCalls == { i \in 1..Len(calls) : calls[i].op = "sendPacket" }

\* The interpreter call that runs an effect.
EffectCall(e) ==
    IF e.type = "send_packet"
    THEN [op |-> "sendPacket", connId |-> e.connId, packet |-> e.packet]
    ELSE IF e.type = "disconnect"
    THEN [op |-> "disconnect", connId |-> e.connId, reason |-> e.reason]
    ELSE [op |-> "log", level |-> e.level, message |-> e.message]

\* What handlePacket returns for packet p of connection c in phase ph.
HandlerOutcome(c, ph, p) ==
    handlePacket([state |-> addConnection(createInitialState,
                                [id |-> c, state |-> ph, readBuffer |-> <<>>]),
                  connId |-> c, packet |-> p])

\* The response frames the packets of h cause, in order.
RECURSIVE Responses(_)
Responses(h) ==
    IF h = <<>> THEN <<>>
    ELSE LET p == Head(h).packet
             r == IF p.type = "status_request"
                  THEN encodePacket([type |-> "status_response",
                                     response |-> ConfiguredResponse])
                  ELSE IF p.type = "ping_request"
                  THEN encodePacket([type |-> "ping_response",
                                     payload |-> p.payload])
                  ELSE <<>>
         IN  r \o Responses(Tail(h))

\* C11: within a pass every handlePacket call directly follows the decode of
\* its frame and is directly followed by the interpreter calls of its own
\* effects, in order; only then is the next frame decoded, and it is decoded
\* under the phase the handler left behind.  Across passes the bytes written
\* to a connection that was never disconnected are the responses to its
\* handled requests in request order.
C11_ArrivalOrder ==
    /\ pass.ev = "data" =>
           \A i \in HandleCalls :
               LET d  == calls[i - 1]
                   o  == HandlerOutcome(pass.connId, d.state, calls[i].packet)
                   k  == Len(o.effects)
               IN  /\ i - 1 \in DecodeCalls
                   /\ d.success
                   /\ Len(calls) >= i + k
                   /\ \A j \in 1..k : calls[i + j] = EffectCall(o.effects[j])
                   /\ Len(calls) > i + k =>
                          /\ i + k + 1 \in DecodeCalls
                          /\ calls[i + k + 1].state =
                                 o.newState.connections[pass.connId].state
                          /\ calls[i + k + 1].buffer =
                                 SubSeq(d.buffer, d.consumed + 1, Len(d.buffer))
    /\ \A c \in ConnIds :
           disconnects[c] = 0 => written[c] = Responses(handled[c])

\* C11 witness: one pass handled a StatusRequest and then a PingRequest and
\* sent both responses.
C11_Witness ==
    /\ pass.ev = "data"
    /\ \E i, j \in SendCalls :
           /\ i < j
           /\ calls[i].packet.type = "status_response"
           /\ calls[j].packet.type = "ping_response"
    /\ written[1] # <<>>


(***************************************************************************)
(* C12  Ping echo identity.                                                *)
(***************************************************************************)
\* C12: a PingRequest frame with any 8-byte body, decoded under status and
\* handled, yields exactly one SendPacket effect; it is addressed to the
\* requesting connection, carries a PingResponse with the decoded payload
\* (negative when the first body byte has its top bit set), and its encoding
\* is the frame 09 01 followed by the same 8 bytes as the request body.
C12_PingEcho ==
    probe.op = "ping" =>
        LET sends == { i \in 1..Len(probe.result.effects) :
                          probe.result.effects[i].type = "send_packet" }
        IN  /\ Cardinality(sends) = 1
            /\ \A i \in sends :
                   LET e == probe.result.effects[i]
                   IN  /\ e.connId = probe.connId
                       /\ e.packet.type = "ping_response"
                       /\ (e.packet.payload[1] < 0) = (probe.body[1] >= 128)
                       /\ encodePacket(e.packet) = <<9, 1>> \o probe.body

\* C12 witness: a PingRequest with a negative payload that is not a
\* palindrome of bytes was answered on connection 2.
C12_Witness ==
    /\ probe.op = "ping"
    /\ probe.connId = 2
    /\ probe.body[1] = 255 /\ probe.body[8] = 1
    /\ Len(probe.result.effects) = 2


(***************************************************************************)
(* C13  The effects of the two status-phase handlers.                      *)
(***************************************************************************)
\* C13: handlePacket for a StatusRequest or a PingRequest returns the server
\* state it was given, exactly one SendPacket effect, addressed to the
\* connection of the request and carrying the matching response, and no
\* Disconnect effect.
C13_RequestHandlers ==
    (probe.op = "handlePacket"
        /\ probe.packet.type \in {"status_request", "ping_request"}) =>
        LET effects == probe.result.effects
            sends == { i \in 1..Len(effects) : effects[i].type = "send_packet" }
        IN  /\ probe.result.newState = probe.state
            /\ Cardinality(sends) = 1
            /\ \A i \in sends :
                   /\ effects[i].connId = probe.connId
                   /\ effects[i].packet.type =
                          (IF probe.packet.type = "status_request"
                           THEN "status_response" ELSE "ping_response")
            /\ \A i \in 1..Len(effects) : effects[i].type # "disconnect"

\* C13 witness: a StatusRequest of connection 2 was handled while
\* connection 1 was registered in the status phase as well.
C13_Witness ==
    /\ probe.op = "handlePacket"
    /\ probe.packet.type = "status_request"
    /\ probe.connId = 2
    /\ probe.state.connections[1].state = "status"
    /\ probe.state.connections[2].state = "status"
    /\ Len(probe.result.effects) = 2


(***************************************************************************)
(* C14  The server-list ping scenario.                                     *)
(***************************************************************************)
\* C14: on a fresh connection that sends 10 00 EE 01 09 'localhost' 63 DD 01
\* and then 01 00, however the bytes are split over data events: nothing is
\* handled before the 17 bytes of the first frame are in; then the first
\* handled packet is Handshake{238, "localhost", 25565, 1}, decoded under
\* handshaking, and the phase moves to status; once all bytes are in, the
\* second handled packet is a StatusRequest decoded under status, and the
\* bytes written to the connection are one StatusResponse frame whose JSON
\* document carries the configured description text.
C14_LocalhostScenario ==
    (sockStatus[1] # "none" /\ rx[1] \o wire[1] = ScenarioLocalhost) =>
        /\ Len(rx[1]) < 17 =>
               (handled[1] = <<>> /\ phases[1] = <<"handshaking">>)
        /\ Len(rx[1]) >= 17 =>
               /\ Len(handled[1]) >= 1
               /\ handled[1][1] =
                      [packet |-> [type |-> "handshake",
                                   protocolVersion |-> 238,
                                   serverAddress |-> Localhost,
                                   serverPort |-> 25565,
                                   nextState |-> 1],
                       phase |-> "handshaking"]
               /\ phases[1] = <<"handshaking", "status">>
        /\ wire[1] # <<>> => (Len(handled[1]) <= 1 /\ written[1] = <<>>)
        /\ wire[1] = <<>> =>
               /\ Len(handled[1]) = 2
               /\ handled[1][2] = [packet |-> [type |-> "status_request"],
                                   phase |-> "status"]
               /\ written[1] = <<220, 1, 0, 217, 1>> \o JsonHead
                                  \o SubSeq(DescriptionText, 1, 58)
                                  \o <<92, 110>>
                                  \o SubSeq(DescriptionText, 60, 88)
                                  \o JsonTail
               /\ pass.ev = "data" =>
                      \E i \in SendCalls :
                          /\ calls[i].connId = 1
                          /\ calls[i].packet.type = "status_response"
                          /\ calls[i].packet.response.description.text
                                 = DescriptionText

\* C14 witness: the scenario ran to its end, the StatusRequest arriving in a
\* data event of its own.
C14_Witness ==
    /\ rx[1] = ScenarioLocalhost /\ wire[1] = <<>>
    /\ pass.ev = "data" /\ pass.buffer = <<1, 0>>
    /\ Len(handled[1]) = 2
    /\ written[1] # <<>>


(***************************************************************************)
(* C15  VarInt round trip.                                                 *)
(***************************************************************************)
\* The number of 7-bit groups v needs.
MinimalLength(v) ==
    IF v < 128 THEN 1
    ELSE IF v < 16384 THEN 2
    ELSE IF v < 2097152 THEN 3
    ELSE IF v < 268435456 THEN 4
    ELSE 5

\* C15: for every v in 0 .. 2^31 - 1, decodeVarInt(encodeVarInt(v), 0)
\* returns the value v and a bytesRead equal to the length of the encoding;
\* the encoding has between 1 and 5 bytes, no more than v needs, and only its
\* last byte has the continuation bit clear.
C15_VarIntRoundTrip ==
    probe.op = "varint" =>
        LET n == Len(probe.encoded)
        IN  /\ probe.decoded.ok
            /\ probe.decoded.value = probe.value
            /\ probe.decoded.bytesRead = n
            /\ 1 <= n /\ n <= 5
            /\ n = MinimalLength(probe.value)
            /\ \A i \in 1..n : (probe.encoded[i] >= 128) = (i < n)

\* C15 witness: the largest value, 2^31 - 1, went through the round trip as
\* FF FF FF FF 07.
C15_Witness ==
    /\ probe.op = "varint"
    /\ probe.value = 2147483647
    /\ probe.encoded = <<255, 255, 255, 255, 7>>
    /\ probe.decoded.ok


(***************************************************************************)
(* C16  decodeVarInt on a truncated VarInt.                                *)
(***************************************************************************)
\* C16 (as claimed): decodeVarInt applied to a proper prefix of a valid
\* VarInt encoding, whose last byte still has the continuation bit set,
\* returns no value.
C16_PrefixIncomplete ==
    (probe.op = "prefix" /\ probe.buffer[Len(probe.buffer)] >= 128) =>
        ~probe.decoded.ok


(***************************************************************************)
(* C17  Incomplete leaves the buffer as it is.                             *)
(***************************************************************************)
\* C17: when decodePacket reports Incomplete in a pass, its remaining is the
\* buffer it was given; the decode is the last call of the pass, so no
\* handler and no effect runs for those bytes; the pass ends by break, and
\* afterwards the connection's readBuffer is exactly that buffer and its
\* phase is the one the decode was made under.
C17_IncompleteKeepsBuffer ==
    pass.ev = "data" =>
        \A i \in DecodeCalls :
            calls[i].reason = "incomplete" =>
                /\ calls[i].consumed = 0
                /\ decodePacket(calls[i].buffer, calls[i].state).remaining
                       = calls[i].buffer
                /\ i = Len(calls)
                /\ pass.exit = "break"
                /\ Registered(pass.connId)
                /\ ReadBufferOf(pass.connId) = calls[i].buffer
                /\ PhaseOf(pass.connId) = calls[i].state

\* C17 witness: a pass handled a packet and then met the first bytes of a
\* frame whose declared length had not arrived in full.
C17_Witness ==
    /\ pass.ev = "data"
    /\ HandleCalls # {}
    /\ Len(calls) \in DecodeCalls
    /\ calls[Len(calls)].reason = "incomplete"
    /\ Len(calls[Len(calls)].buffer) >= 2
    /\ calls[Len(calls)].buffer[1] > Len(calls[Len(calls)].buffer) - 1
    /\ ReadBufferOf(pass.connId) = calls[Len(calls)].buffer


(***************************************************************************)
(* C18  What remains after a complete frame.                               *)
(***************************************************************************)
\* C18: when the buffer begins with a complete frame and decodePacket
\* returns success or Invalid, remaining is the buffer without the bytes of
\* that frame: the length prefix and as many bytes as it declares.
C18_RemainingAfterFrame ==
    ( /\ probe.op = "decodePacket"
      /\ LengthEnd(probe.buffer) > 0
      /\ Len(probe.buffer) >= FrameSize(probe.buffer)
      /\ probe.result.reason # "incomplete" ) =>
        probe.result.remaining =
            SubSeq(probe.buffer, FrameSize(probe.buffer) + 1,
                   Len(probe.buffer))

\* C18 witness: a frame with a two-byte length prefix was rejected as
\* Invalid with a byte of the next frame behind it.
C18_Witness ==
    /\ probe.op = "decodePacket"
    /\ Len(probe.buffer) = 4
    /\ probe.buffer[1] >= 128
    /\ FrameSize(probe.buffer) = 3
    /\ probe.result.reason = "invalid"
    /\ Len(probe.result.remaining) = 1


(***************************************************************************)
(* C19  decodePacket is total.                                             *)
(***************************************************************************)
\* t is what is left of b after dropping some of its first bytes.
IsSuffix(t, b) ==
    Len(t) <= Len(b) /\ t = SubSeq(b, Len(b) - Len(t) + 1, Len(b))

\* C19: for every buffer and every connection state decodePacket returns one
\* of its three results: success with a packet of a known type, Incomplete,
\* or Invalid, each with a remaining that is a suffix of the buffer; a
\* failure of a VarInt, string or body decoder shows only as Incomplete or
\* Invalid.
C19_DecodePacketTotal ==
    probe.op = "decodePacket" =>
        /\ \/ /\ probe.result.success
              /\ probe.result.packet.type
                     \in {"handshake", "status_request", "ping_request"}
           \/ /\ ~probe.result.success
              /\ probe.result.reason \in {"incomplete", "invalid"}
        /\ IsSuffix(probe.result.remaining, probe.buffer)
        /\ ( /\ HasPlainFrame(probe.buffer)
             /\ decodeBody(probe.state, PlainId(probe.buffer),
                           PlainBody(probe.buffer)).threw )
               => (~probe.result.success /\ probe.result.reason = "invalid")

\* C19 witness: a Handshake frame that ends before its nextState field made
\* the body decoder fail, and decodePacket returned Invalid.
C19_Witness ==
    /\ probe.op = "decodePacket"
    /\ probe.state = "handshaking"
    /\ probe.buffer = FrameHSCut
    /\ probe.result.reason = "invalid"


(***************************************************************************)
(* C20  The packet id comes from inside the frame.                         *)
(***************************************************************************)
\* C20 (as claimed): when the buffer begins with a complete frame that
\* declares length 0, or whose bytes all carry the continuation bit so that
\* the packet-id VarInt does not end inside the frame, decodePacket returns
\* Invalid and no packet, whatever follows the frame.
C20_IdInsideFrame ==
    ( /\ probe.op = "decodePacket"
      /\ LengthEnd(probe.buffer) > 0
      /\ Len(probe.buffer) >= FrameSize(probe.buffer)
      /\ \A j \in (LengthEnd(probe.buffer) + 1)..FrameSize(probe.buffer) :
             probe.buffer[j] >= 128 ) =>
        (~probe.result.success /\ probe.result.reason = "invalid")


(***************************************************************************)
(* C21  handlePacket is total and pure.                                    *)
(***************************************************************************)
EffectTypes == {"send_packet", "disconnect", "log"}
KnownTypes == {"handshake", "status_request", "ping_request"}

\* C21: for every server state, connection id (registered or not) and packet
\* (of a known type or not) handlePacket returns a server state over the same
\* registry keys and a finite list of effects; nothing is executed by the
\* call (no interpreter call, no byte written, the server's own state as it
\* was); for an id that is not registered the state comes back as given; a
\* packet of unknown type yields the state as given and exactly one effect,
\* a Log at level warn.
C21_HandlePacketTotal ==
    probe.op = "handlePacket" =>
        LET r == probe.result
        IN  /\ DOMAIN r = {"newState", "effects"}
            /\ DOMAIN r.newState = {"connections", "currentTick"}
            /\ DOMAIN r.newState.connections = DOMAIN probe.state.connections
            /\ r.newState.currentTick = probe.state.currentTick
            /\ Len(r.effects) \in 1..2
            /\ \A i \in 1..Len(r.effects) : r.effects[i].type \in EffectTypes
            /\ calls = <<>>
            /\ state = createInitialState
            /\ \A c \in ConnIds : written[c] = <<>>
            /\ probe.connId \notin DOMAIN probe.state.connections =>
                   r.newState = probe.state
            /\ probe.packet.type \notin KnownTypes =>
                   /\ r.newState = probe.state
                   /\ Len(r.effects) = 1
                   /\ r.effects[1].type = "log"
                   /\ r.effects[1].level = "warn"

\* C21 witness: a packet of unknown type was handled for an id the registry
\* does not hold, and one effect came back.
C21_Witness ==
    /\ probe.op = "handlePacket"
    /\ probe.packet.type = "login_start"
    /\ probe.connId = AbsentConn
    /\ probe.connId \notin DOMAIN probe.state.connections
    /\ Len(probe.result.effects) = 1


(***************************************************************************)
(* C22  What handling a Handshake changes.                                 *)
(***************************************************************************)
\* C22: handlePacket for a Handshake returns exactly one effect, a Log at
\* level info, together with a state that has the same tick and the same
\* registry keys, in which every other connection is as it was and the
\* addressed connection keeps its id and its readBuffer; only its phase is
\* set, to status or to login.
C22_HandshakeResult ==
    (probe.op = "handlePacket" /\ probe.packet.type = "handshake") =>
        LET old == probe.state
            new == probe.result.newState
            effects == probe.result.effects
        IN  /\ Len(effects) = 1
            /\ effects[1].type = "log" /\ effects[1].level = "info"
            /\ new.currentTick = old.currentTick
            /\ DOMAIN new.connections = DOMAIN old.connections
            /\ \A d \in DOMAIN old.connections :
                   IF d = probe.connId
                   THEN /\ new.connections[d].id = old.connections[d].id
                        /\ new.connections[d].readBuffer =
                               old.connections[d].readBuffer
                        /\ new.connections[d].state \in {"status", "login"}
                   ELSE new.connections[d] = old.connections[d]

\* C22 witness: a Handshake with next state 2 was handled for connection 2,
\* which held a byte in its readBuffer, while connection 1 was in status.
C22_Witness ==
    /\ probe.op = "handlePacket"
    /\ probe.packet.type = "handshake" /\ probe.packet.nextState = 2
    /\ probe.connId = 2
    /\ probe.state.connections[2].state = "handshaking"
    /\ probe.state.connections[2].readBuffer = <<1>>
    /\ probe.state.connections[1].state = "status"
    /\ probe.result.newState.connections[2].state = "login"
    /\ probe.result.newState # probe.state


(***************************************************************************)
(* C23  Connections do not interfere.                                      *)
(***************************************************************************)
\* The world an event of connection c would find had no other connection
\* ever been opened.
Restrict(m, c) == [d \in (DOMAIN m) \cap {c} |-> m[d]]
Alone(c) ==
    [World EXCEPT !.state.connections = Restrict(@, c),
                  !.sockets = @ \cap {c},
                  !.sinks = Restrict(@, c)]

\* The bytes the step delivered to connection c.
Delivered(c) == SubSeq(rx'[c], Len(rx[c]) + 1, Len(rx'[c]))

\* What the data event of this step does in the world of c alone.
AloneData(c) ==
    processBuffer(
        [Alone(c) EXCEPT !.state =
             updateConnection(@, c, "readBuffer",
                              IF c \in DOMAIN @.connections
                              THEN @.connections[c].readBuffer \o Delivered(c)
                              ELSE <<>>)], c).w

\* The step leaves connection d as it was.
Untouched(d) ==
    /\ (d \in DOMAIN state'.connections) = (d \in DOMAIN state.connections)
    /\ d \in DOMAIN state.connections =>
           state'.connections[d] = state.connections[d]
    /\ (d \in sockets') = (d \in sockets)
    /\ (d \in DOMAIN sinks') = (d \in DOMAIN sinks)
    /\ d \in DOMAIN sinks => sinks'[d] = sinks[d]
    /\ sockStatus'[d] = sockStatus[d]
    /\ written'[d] = written[d]
    /\ handled'[d] = handled[d]
    /\ phases'[d] = phases[d]
    /\ disconnects'[d] = disconnects[d]

\* The step did to connection c what `alone` says.
SameAs(c, alone) ==
    /\ calls' = alone.calls
    /\ (c \in DOMAIN state'.connections) = (c \in DOMAIN alone.state.connections)
    /\ c \in DOMAIN state'.connections =>
           state'.connections[c] = alone.state.connections[c]
    /\ (c \in sockets') = (c \in alone.sockets)
    /\ (c \in DOMAIN sinks') = (c \in DOMAIN alone.sinks)
    /\ c \in DOMAIN sinks' => sinks'[c] = alone.sinks[c]
    /\ sockStatus'[c] = alone.sockStatus[c]
    /\ written'[c] = alone.written[c]
    /\ handled'[c] = alone.handled[c]
    /\ phases'[c] = alone.phases[c]
    /\ disconnects'[c] = alone.disconnects[c]

Locality ==
    \A c \in ConnIds :
        pass'.connId = c =>
            /\ \A d \in ConnIds \ {c} : Untouched(d)
            /\ pass'.ev = "data" => SameAs(c, AloneData(c))

\* C23: every event of a connection leaves every other connection as it was
\* (registry record, socket and sink entries, bytes written, packets
\* handled, phases, disconnects), and a data event does to its own
\* connection (phase, readBuffer, interpreter calls, bytes written,
\* disconnect) exactly what it does when no other connection exists; so,
\* step by step, each connection fares under any interleaving as it would
\* alone, and an invalid frame disconnects its own connection only.
C23_ConnectionLocal == [][Locality]_vars

\* C23 witness: connection 1 was disconnected for an invalid frame while
\* connection 2 was in the middle of its stream, and connection 2 then went
\* on to get a response in a later data event.
C23_Witness ==
    /\ pass.ev = "data" /\ pass.connId = 2
    /\ disconnects[1] = 1 /\ disconnects[2] = 0
    /\ Len(handled[1]) >= 1
    /\ written[2] # <<>>
    /\ Cardinality(SendCalls) >= 1
    /\ Len(wire[2]) > 0
    /\ Registered(1) /\ Registered(2)


(***************************************************************************)
(* C24  The frame envelope of the encoder.                                 *)
(***************************************************************************)
\* The 8 bytes of a 64-bit payload, most significant first.
BigEndian(v) ==
    LET u1 == IF v[1] < 0 THEN v[1] + 65536 ELSE v[1]
    IN  << u1 \div 256, u1 % 256, v[2] \div 256, v[2] % 256,
           v[3] \div 256, v[3] % 256, v[4] \div 256, v[4] % 256 >>

\* The packet id and the body the wire format gives an outgoing packet: a
\* StatusResponse is id 0 with the JSON document as a length-prefixed
\* string, a PingResponse is id 1 with the payload.
WireId(p) == IF p.type = "status_response" THEN 0 ELSE 1

\* The value of a hexadecimal digit character.
HexValue(ch) == IF ch <= 57 THEN ch - 48 ELSE ch - 87

\* The number of backslashes that stand directly before index i of lit.
BackslashesBefore(lit, i) ==
    CHOOSE k \in 0..(i - 1) :
        /\ \A j \in 1..k : lit[i - j] = 92
        /\ k = i - 1 \/ lit[i - k - 1] # 92

\* An escape of a JSON string literal starts at index i, and its length.
EscapeStart(lit, i) == lit[i] = 92 /\ BackslashesBefore(lit, i) % 2 = 0
EscapeLength(lit, i) ==
    IF i + 1 <= Len(lit) /\ lit[i + 1] = 117 THEN 6 ELSE 2
InsideEscape(lit, i) ==
    \E e \in 1..(i - 1) :
        EscapeStart(lit, e) /\ i < e + EscapeLength(lit, e)

\* The character the escape at index i stands for, -1 when it is none.
EscapeValue(lit, i) ==
    IF i + 1 > Len(lit) THEN -1
    ELSE IF lit[i + 1] = 117
    THEN IF /\ i + 5 <= Len(lit)
            /\ lit[i + 2] = 48 /\ lit[i + 3] = 48
            /\ \A j \in {i + 4, i + 5} :
                   lit[j] \in (48..57) \cup (97..102)
         THEN 16 * HexValue(lit[i + 4]) + HexValue(lit[i + 5])
         ELSE -1
    ELSE IF lit[i + 1] = 98 THEN 8
    ELSE IF lit[i + 1] = 116 THEN 9
    ELSE IF lit[i + 1] = 110 THEN 10
    ELSE IF lit[i + 1] = 102 THEN 12
    ELSE IF lit[i + 1] = 114 THEN 13
    ELSE IF lit[i + 1] \in {34, 92, 47} THEN lit[i + 1]
    ELSE -1

\* What index i of the literal adds to the text: nothing inside an escape,
\* the escaped character at the start of one, the character itself
\* otherwise; -1 for a bare quotation mark or control character.
CharacterAt(lit, i) ==
    IF InsideEscape(lit, i) THEN <<>>
    ELSE IF EscapeStart(lit, i) THEN <<EscapeValue(lit, i)>>
    ELSE IF lit[i] = 34 \/ lit[i] < 32 THEN <<-1>>
    ELSE <<lit[i]>>

RECURSIVE JSONparseRange(_, _, _)
JSONparseRange(lit, lo, hi) ==
    IF lo > hi THEN <<>>
    ELSE IF lo = hi THEN CharacterAt(lit, lo)
    ELSE JSONparseRange(lit, lo, (lo + hi) \div 2)
             \o JSONparseRange(lit, (lo + hi) \div 2 + 1, hi)

\* The text a JSON string literal (without its quotes) stands for, as a JSON
\* parser reads it; it holds -1 where the literal is not one.
JSONparseString(lit) == JSONparseRange(lit, 1, Len(lit))

\* doc is the JSON document of the response: the fixed head and tail with
\* a string literal between them that reads back as the description text.
IsDocumentOf(doc, response) ==
    /\ Len(doc) >= Len(JsonHead) + Len(JsonTail)
    /\ StartsWith(doc, JsonHead)
    /\ IsSuffix(JsonTail, doc)
    /\ JSONparseString(SubSeq(doc, Len(JsonHead) + 1,
                              Len(doc) - Len(JsonTail)))
           = response.description.text

WireBodyFits(p, body) ==
    IF p.type = "status_response"
    THEN /\ FieldEnd(body, 0) > 0
         /\ FieldEnd(body, 0) = MinimalLength(FieldValue(body, 0))
         /\ FieldValue(body, 0) = Len(body) - FieldEnd(body, 0)
         /\ IsDocumentOf(subarray(body, FieldEnd(body, 0)), p.response)
    ELSE body = BigEndian(p.payload)

\* C24: the output of encodePacket is a minimal length VarInt n, the one
\* byte packet id and the body, with n the number of bytes behind the length
\* prefix; so the output is exactly one frame with nothing behind it, and
\* decodePacket under status finds a complete frame and returns an empty
\* remaining; an encoded PingResponse decodes under status as the
\* PingRequest with the same payload.
C24_EncoderEnvelope ==
    probe.op = "encodePacket" =>
        LET b == probe.encoded
            e == LengthEnd(b)
            n == Declared(b, e)
        IN  /\ e > 0
            /\ e = MinimalLength(n)
            /\ n = Len(b) - e
            /\ FrameSize(b) = Len(b)
            /\ b[e + 1] = WireId(probe.packet)
            /\ WireBodyFits(probe.packet, SubSeq(b, e + 2, Len(b)))
            /\ probe.decoded.reason # "incomplete"
            /\ probe.decoded.remaining = <<>>
            /\ probe.packet.type = "ping_response" =>
                   /\ probe.decoded.success
                   /\ probe.decoded.packet =
                          [type |-> "ping_request",
                           payload |-> probe.packet.payload]

\* C24 witness: the configured StatusResponse was encoded with a two-byte
\* length prefix, and the decoder, under status, took it for one whole frame
\* that is no request.
C24_Witness ==
    /\ probe.op = "encodePacket"
    /\ probe.packet.type = "status_response"
    /\ probe.packet.response = ConfiguredResponse
    /\ LengthEnd(probe.encoded) = 2
    /\ Len(probe.encoded) > 200
    /\ ~probe.decoded.success


(***************************************************************************)
(* C25  Write backpressure.                                                *)
(***************************************************************************)
\* Connection c is open and no Disconnect was executed for it.
Live(c) == sockStatus[c] = "open" /\ disconnects[c] = 0
\* Bytes of c wait in its sink.
Queued(c) == c \in DOMAIN sinks /\ sinks[c] # <<>>

\* The bytes the transport accepted, followed by the bytes queued, are the
\* encoded responses in send order; queued bytes mean the transport is full.
InOrder ==
    \A c \in ConnIds :
        Live(c) => /\ c \in DOMAIN sinks
                   /\ written[c] \o sinks[c] = Responses(handled[c])
                   /\ Queued(c) => room[c].limited /\ room[c].n = 0

\* C25 (as claimed): for a connection that is open and was not
\* disconnected, at every moment the bytes the transport has accepted are a
\* prefix of the encoded SendPacket frames in send order and the sink holds
\* exactly the rest, in order, ahead of anything sent later; and whenever
\* bytes are queued, they are all written (or the connection is disconnected
\* or closed) after finitely many drain signals.
C25_Backpressure ==
    /\ []InOrder
    /\ \A c \in One : Queued(c) ~> ~Queued(c)

\* What does hold: no event leaves a byte in a sink, so nothing is ever
\* kept for a later drain.
C25_NothingRetained ==
    \A c \in ConnIds : c \in DOMAIN sinks => sinks[c] = <<>>

\* The state the violation shows in: the transport took a part of a
\* response, the rest is neither written nor queued, and the pass was left
\* by the exception with the request still in the stored readBuffer.
C25_RestLost ==
    /\ pass.ev = "data" /\ pass.exit = "threw" /\ Live(1)
    /\ Len(handled[1]) = 2
    /\ Len(written[1]) \in 1..9
    /\ sinks[1] = <<>>
    /\ ReadBufferOf(1) = pass.buffer


(***************************************************************************)
(* C26  Connection lifecycle.                                              *)
(***************************************************************************)
\* C26: an id the transport has not opened has no registry entry; right
\* after the open event the connection is registered in phase handshaking
\* with an empty readBuffer and has its socket and its sink; once the close
\* event has run there is no entry for it in state.connections, in sockets
\* or in sinks, whether or not a Disconnect was executed for it before.
C26_Lifecycle ==
    \A c \in ConnIds :
        /\ sockStatus[c] = "none" =>
               ~Registered(c) /\ c \notin sockets /\ c \notin DOMAIN sinks
        /\ (pass.ev = "open" /\ pass.connId = c) =>
               /\ Registered(c)
               /\ state.connections[c] =
                      [id |-> c, state |-> "handshaking", readBuffer |-> <<>>]
               /\ c \in sockets
               /\ c \in DOMAIN sinks /\ sinks[c] = <<>>
        /\ sockStatus[c] = "closed" =>
               ~Registered(c) /\ c \notin sockets /\ c \notin DOMAIN sinks

\* C26 witness: the connection was closed after an invalid frame had got it
\* disconnected in the middle of its stream.
C26_Witness ==
    /\ pass.ev = "close" /\ pass.connId = 1
    /\ sockStatus[1] = "closed"
    /\ disconnects[1] = 1
    /\ Len(handled[1]) >= 1
    /\ ~Registered(1)


(***************************************************************************)
(* C27  The log entry of an invalid frame.                                 *)
(***************************************************************************)
LogCalls == { i \in 1..Len(calls) : calls[i].op = "log" }
\* The message has `part` among its parts.
Mentions(message, part) == \E k \in 1..Len(message) : message[k] = part
\* The decodePacket call of the pass that did not succeed.
FailedDecode == CHOOSE i \in DecodeCalls : ~calls[i].success
\* The packet id byte of the frame at the head of b.
OffendingId(b) ==
    IF LengthEnd(b) > 0 /\ Len(b) > LengthEnd(b) THEN b[LengthEnd(b) + 1]
    ELSE 0

\* C27: a pass that ends with the Disconnect for an invalid frame also runs
\* a Log at level error whose message names the connection, the phase the
\* frame was decoded under and the packet id of the frame.
C27_InvalidLogContent ==
    (pass.ev = "data" /\ pass.exit = "invalid") =>
        \E i \in LogCalls :
            /\ calls[i].level = "error"
            /\ Mentions(calls[i].message, ToString(pass.connId))
            /\ Mentions(calls[i].message, calls[FailedDecode].state)
            /\ Mentions(calls[i].message,
                        ToString(OffendingId(calls[FailedDecode].buffer)))

\* What does hold of that pass: the Log at level error is there and names
\* the connection.
C27_ErrorLogNamesConnection ==
    (pass.ev = "data" /\ pass.exit = "invalid") =>
        \E i \in LogCalls :
            /\ calls[i].level = "error"
            /\ Mentions(calls[i].message, ToString(pass.connId))


(***************************************************************************)
(* C28  The phase of the next frame in the same pass.                      *)
(***************************************************************************)
\* j is the decodePacket call that follows the decodePacket call i.
NextDecode(i, j) ==
    /\ i \in DecodeCalls /\ j \in DecodeCalls /\ i < j
    /\ \A k \in DecodeCalls : ~(i < k /\ k < j)

\* C28: when a pass decodes a frame and then another one, the second is
\* decoded under the phase the packet of the first leaves: after a Handshake
\* that is status (next state 1) or login (next state 2) and never
\* handshaking; after any other packet it is the phase of the first.
C28_NextFramePhase ==
    pass.ev = "data" =>
        \A i, j \in DecodeCalls :
            NextDecode(i, j) =>
                LET p == calls[i + 1].packet
                IN  /\ calls[i].success
                    /\ i + 1 \in HandleCalls
                    /\ IF p.type = "handshake"
                       THEN /\ calls[i].state = "handshaking"
                            /\ calls[j].state \in {"status", "login"}
                            /\ p.nextState = 1 => calls[j].state = "status"
                            /\ p.nextState = 2 => calls[j].state = "login"
                       ELSE calls[j].state = calls[i].state

\* C28 witness: one data event brought a Handshake with next state 1 and a
\* StatusRequest; the second frame was decoded under status and answered.
C28_Witness ==
    /\ pass.ev = "data" /\ pass.phase = "handshaking"
    /\ \E i, j \in DecodeCalls :
           /\ NextDecode(i, j)
           /\ calls[i].state = "handshaking"
           /\ calls[i + 1].packet.type = "handshake"
           /\ calls[j].state = "status" /\ calls[j].success
           /\ calls[j + 1].packet.type = "status_request"
    /\ Cardinality(SendCalls) = 1


(***************************************************************************)
(* C29  A pass terminates.                                                 *)
(***************************************************************************)
\* The last decodePacket call of the pass.
LastDecode == CHOOSE i \in DecodeCalls : \A j \in DecodeCalls : j <= i

\* C29: in every pass over a non-empty buffer each successful decodePacket
\* call takes at least one byte off the working buffer, so there are no more
\* calls than bytes; a call that reports incomplete or invalid is the last
\* one; and the pass is left in one of three ways: by the break at the first
\* incomplete result, by the return at the first invalid result, or by the
\* loop condition once every byte of the buffer has been consumed.
C29_PassTerminates ==
    (pass.ev = "data" /\ pass.buffer # <<>>) =>
        /\ DecodeCalls # {}
        /\ Cardinality(DecodeCalls) <= Len(pass.buffer)
        /\ \A i \in DecodeCalls :
               /\ Len(calls[i].buffer) >= 1
               /\ calls[i].success => calls[i].consumed >= 1
               /\ ~calls[i].success => i = LastDecode
        /\ pass.exit \in {"break", "invalid", "empty"}
        /\ (pass.exit = "break") = (calls[LastDecode].reason = "incomplete")
        /\ (pass.exit = "invalid") = (calls[LastDecode].reason = "invalid")
        /\ (pass.exit = "empty") =
               (/\ calls[LastDecode].success
                /\ ConsumedUpTo(Len(calls)) = Len(pass.buffer))

\* C29 witness: a pass handled three frames one after the other and left
\* the loop with the buffer used up.
C29_Witness ==
    /\ pass.ev = "data"
    /\ pass.exit = "empty"
    /\ Cardinality(DecodeCalls) = 3
    /\ Cardinality(HandleCalls) = 3
    /\ Len(pass.buffer) >= 13
    /\ Registered(1) /\ ReadBufferOf(1) = <<>>


(***************************************************************************)
(* C30  A complete frame is answered in the event that completes it.       *)
(***************************************************************************)
\* The packet type a legal frame carries.
TypeOf(f) ==
    IF f \in {FrameHS1, FrameHS2} THEN "handshake"
    ELSE IF f = FrameSR THEN "status_request" ELSE "ping_request"

\* The complete legal frames b begins with, each with the phase it is read
\* in, starting from phase ph.
RECURSIVE LeadingFrames(_, _)
LeadingFrames(b, ph) ==
    IF \E f \in LegalFrames(ph) : StartsWith(b, f)
    THEN LET f == CHOOSE g \in LegalFrames(ph) : StartsWith(b, g)
         IN  << [type |-> TypeOf(f), phase |-> ph] >>
                 \o LeadingFrames(SubSeq(b, Len(f) + 1, Len(b)),
                                  PhaseAfter(ph, f))
    ELSE << >>

C31_RunEffectsInOrder ==
    probe.op = "runEffects" =>
        /\ Len(probe.calls) = Len(probe.effects)
        /\ \A i \in 1..Len(probe.effects) :
               probe.calls[i] = EffectCall(probe.effects[i])

\* C31 witness: a list [SendPacket to 2, Disconnect of 2, SendPacket to 2]
\* was run; the first packet was written, the second found no sink.
C31_Witness ==
    /\ probe.op = "runEffects"
    /\ Len(probe.effects) = 3
    /\ probe.effects[1].type = "send_packet" /\ probe.effects[1].connId = 2
    /\ probe.effects[2].type = "disconnect" /\ probe.effects[2].connId = 2
    /\ probe.effects[3] = probe.effects[1]
    /\ Len(probe.written[2]) = 10
    /\ 2 \notin probe.sockets


(***************************************************************************)
(* C32  The Handshake fields come from the frame's body.                   *)
(***************************************************************************)
\* b is the UTF-8 encoding of a string: ASCII bytes, and lead bytes
\* followed by as many continuation bytes as they call for, in range.
RECURSIVE WellFormedUtf8(_)
WellFormedUtf8(b) ==
    \/ b = <<>>
    \/ /\ utf8BytesNeeded(b[1]) >= 0
       /\ utf8BytesSeen(b, 1) = utf8BytesNeeded(b[1])
       /\ WellFormedUtf8(SubSeq(b, utf8BytesNeeded(b[1]) + 2, Len(b)))

\* The server address the bytes of the field stand for: the bytes
\* themselves when they are well-formed UTF-8 without a byte order mark;
\* otherwise whatever well-formed text the decoder makes of them.
AddressText(b) ==
    IF WellFormedUtf8(b) /\ ~StartsWith(b, ByteOrderMark) THEN b
    ELSE TextDecoderDecode(b)

\* The fields of a body that HandshakeFits, read off the wire format.
HandshakeOf(body) ==
    LET n1 == FieldEnd(body, 0)
        n2 == FieldEnd(body, n1)
        sl == FieldValue(body, n1)
        at == n1 + n2 + sl
    IN  [type |-> "handshake",
         protocolVersion |-> FieldValue(body, 0),
         serverAddress |-> AddressText(SubSeq(body, n1 + n2 + 1, at)),
         serverPort |-> body[at + 1] * 256 + body[at + 2],
         nextState |-> FieldValue(body, at + 2)]

\* C32: a complete frame with id 0 read under handshaking decodes to a
\* Handshake exactly when its body is a VarInt, a string, two port bytes and
\* a VarInt with nothing missing and nothing left over, and then the packet
\* has the fields of the body; in every other case (an address length that
\* declares more than the body holds, a missing or cut port, a missing or
\* unterminated next state) the frame is Invalid.  Either way the bytes
\* behind the frame are returned untouched as remaining and the result is
\* the same as without them.
C32_HandshakeWithinBody ==
    probe.op = "handshake" =>
        /\ probe.result.reason # "incomplete"
        /\ probe.result.remaining = probe.tail
        /\ probe.result.success = HandshakeFits(probe.body)
        /\ ~probe.result.success => probe.result.reason = "invalid"
        /\ probe.result.success =>
               /\ probe.result.packet = HandshakeOf(probe.body)
               /\ WellFormedUtf8(probe.result.packet.serverAddress)
        /\ probe.alone.success = probe.result.success
        /\ probe.alone.reason = probe.result.reason
        /\ probe.result.success =>
               probe.alone.packet = probe.result.packet

\* C32 witness: the next-state VarInt of a Handshake had its continuation
\* bit set on the last byte of the body and the frame was followed by the
\* bytes 01 00; the frame was Invalid and the two bytes were left over.
C32_Witness ==
    /\ probe.op = "handshake"
    /\ probe.body = <<238, 1, 1, 108, 99, 221, 129>>
    /\ probe.tail = <<1, 0>>
    /\ probe.result.reason = "invalid"
    /\ probe.result.remaining = <<1, 0>>


(***************************************************************************)
(* C33  transitionState and the transition table.                          *)
(***************************************************************************)
\* C33: every transitionState request either performs one of the
\* transitions HANDSHAKING to STATUS, HANDSHAKING to LOGIN, LOGIN to PLAY,
\* or leaves the ProtocolState as it was.
C33_OnlyTableTransitions ==
    probe.op = "transitionState" =>
        \A k \in 1..Len(probe.requests) :
            \/ /\ probe.states[k + 1].state = probe.requests[k]
               /\ <<probe.states[k].state, probe.requests[k]>> \in
                      { <<HANDSHAKING, STATUS>>, <<HANDSHAKING, LOGIN>>,
                        <<LOGIN, PLAY>> }
            \/ probe.states[k + 1] = probe.states[k]

\* What transitionState does: the state after a request is the requested
\* one, whatever the state before, and the connection id is kept.
C33_AssignsRequested ==
    probe.op = "transitionState" =>
        \A k \in 1..Len(probe.requests) :
            /\ probe.states[k + 1].state = probe.requests[k]
            /\ probe.states[k + 1].connectionId = probe.states[k].connectionId


(***************************************************************************)
(* C34  At-most-once handling.                                             *)
(***************************************************************************)
\* The bytes of pass.buffer that belong to the frames the pass handled: what
\* the successful decode calls among the first i calls went over.
RECURSIVE HandledUpTo(_)
HandledUpTo(i) ==
    IF i = 0 THEN 0
    ELSE (IF calls[i].op = "decodePacket" /\ calls[i].success
          THEN calls[i].consumed ELSE 0)
         + HandledUpTo(i - 1)

\* The bytes the data event of this step delivered to connection c.
Arrived(c) == Len(rx'[c]) - Len(rx[c])

\* Two data events in a row on one connection: the buffer the second pass
\* decodes holds no byte of a frame the first pass handled, so it is no
\* longer than the unhandled rest of the first buffer plus the new bytes.
NoSecondDecode ==
    (pass.ev = "data" /\ pass'.ev = "data" /\ pass'.connId = pass.connId) =>
        Len(pass'.buffer) <=
            Len(pass.buffer) - HandledUpTo(Len(calls)) + Arrived(pass.connId)

\* C34: across the data events of a connection, the bytes of a frame that
\* was handled in one pass are not in the buffer that the next pass decodes,
\* so no frame is handed to handlePacket twice.
C34_AtMostOnce == [][NoSecondDecode]_vars

\* What does hold: the bytes of handled frames are gone from the next
\* pass's buffer whenever the earlier pass did not end with an invalid
\* frame.
C34_AtMostOnceAfterValid == [][pass.exit # "invalid" => NoSecondDecode]_vars

\* The state the violation shows in: a pass that started from a buffer
\* left by a pass that ended invalid has handled a packet.
C34_HandledAgain ==
    /\ pass.ev = "data" /\ pass.exit = "invalid"
    /\ disconnects[pass.connId] >= 2
    /\ HandleCalls # {}


(***************************************************************************)
(* C35  The verdict does not depend on the split into data events.         *)
(***************************************************************************)
\* The world right after open(socket) for connection c on a server that has
\* had no other connection: c alone is registered, has a socket and an empty
\* sink.
Opened(c) ==
    [state |-> addConnection(createInitialState,
                             [id |-> c, state |-> "handshaking",
                              readBuffer |-> <<>>]),
     sockets |-> {c},
     sinks |-> MapSet(<<>>, c, <<>>),
     sockStatus |-> [d \in ConnIds |-> IF d = c THEN "open" ELSE "none"],
     room |-> [d \in ConnIds |-> NoLimit],
     written |-> [d \in ConnIds |-> <<>>],
     handled |-> [d \in ConnIds |-> <<>>],
     phases |-> [d \in ConnIds |->
                    IF d = c THEN <<"handshaking">> ELSE <<>>],
     disconnects |-> [d \in ConnIds |-> 0],
     calls |-> <<>>]

\* The data handler and its pass when all of `bytes` arrive in one event on
\* a connection that has just been opened.
AtOnce(c, bytes) == onData(Opened(c), c, bytes)

\* No frame of c has been found invalid, or the pass just made is the first
\* to find one.
UpToFirstInvalid(c) ==
    \/ disconnects[c] = 0
    \/ /\ disconnects[c] = 1
       /\ pass.ev = "data" /\ pass.connId = c /\ pass.exit = "invalid"

\* C35: whatever the data events were that delivered the bytes received so
\* far on a connection, the connection has been declared Invalid exactly
\* when the same bytes arriving in one event are, and the packets handled
\* up to there are the same.
C35_SplitIndependent ==
    \A c \in ConnIds :
        (sockStatus[c] \in {"open", "ended"} /\ rx[c] # <<>>
            /\ UpToFirstInvalid(c)) =>
            /\ (disconnects[c] = 1) = (AtOnce(c, rx[c]).exit = "invalid")
            /\ handled[c] = AtOnce(c, rx[c]).w.handled[c]


(***************************************************************************)
(* C36  handlePacket only sees packets that are legal in the phase.        *)
(***************************************************************************)
\* C36: every packet handed to handlePacket was a Handshake while the
\* connection was in handshaking, or a StatusRequest or PingRequest while it
\* was in status; so the phase of a connection in status or login is never
\* changed by a Handshake, and nothing is handled in login or play.
C36_HandledInPhase ==
    \A c \in ConnIds :
        \A i \in 1..Len(handled[c]) :
            LET h == handled[c][i]
            IN  /\ h.packet.type \in KnownTypes
                /\ h.packet.type = "handshake" <=> h.phase = "handshaking"
                /\ h.packet.type \in {"status_request", "ping_request"}
                       <=> h.phase = "status"

\* C36 witness: a connection in status, with a Handshake and a
\* StatusRequest handled, was sent another well-formed Handshake frame; it
\* was decoded under status, found invalid and not handled.
C36_Witness ==
    /\ pass.ev = "data" /\ pass.exit = "invalid"
    /\ Len(handled[pass.connId]) = 2
    /\ PhaseOf(pass.connId) = "status"
    /\ calls[FailedDecode].state = "status"
    /\ StartsWith(calls[FailedDecode].buffer, FrameHS1)


(***************************************************************************)
(* C37  Byte conservation.                                                 *)
(***************************************************************************)
\* The number of bytes the first k frames of b occupy, by their length
\* prefixes; -1 when b does not hold k complete frames.
RECURSIVE FramesEnd(_, _)
FramesEnd(b, k) ==
    IF k = 0 THEN 0
    ELSE IF ~HoldsCompleteFrame(b) THEN -1
    ELSE LET rest == FramesEnd(SubSeq(b, FrameSize(b) + 1, Len(b)), k - 1)
         IN  IF rest < 0 THEN -1 ELSE FrameSize(b) + rest

C38_OnlyOpenRegisters ==
    /\ probe.op = "data" =>
          /\ DOMAIN probe.after.state.connections
                 = DOMAIN probe.before.state.connections
          /\ probe.connId \notin DOMAIN probe.before.state.connections =>
                 /\ probe.after = probe.before
                 /\ probe.calls = <<>>
    /\ (probe.op = "handlePacket"
           /\ probe.connId \notin DOMAIN probe.state.connections) =>
          probe.result.newState = probe.state
    /\ probe.op = "handlerResult" =>
          /\ probe.after.state = probe.returned
          /\ probe.connId \notin DOMAIN probe.after.state.connections
          /\ Len(probe.calls) = 1 /\ probe.calls[1].op = "handlePacket"
          /\ probe.after.written = OpenWorld.written
          /\ probe.after.sockets = OpenWorld.sockets

\* C38 witness: a StatusRequest and a PingRequest arrived in one data event
\* for connection 2 after it had been removed; nothing was decoded and the
\* server is as before, connection 1 still registered.
C38_Witness ==
    /\ probe.op = "data"
    /\ probe.connId = 2
    /\ probe.bytes = FrameSR \o FramePing
    /\ DOMAIN probe.before.state.connections = {1}
    /\ probe.exit = "unknown"
    /\ probe.after = probe.before


(***************************************************************************)
(* C39  sockets, sinks and the registry.                                   *)
(***************************************************************************)
\* C39: in every state the sockets map and the sinks map have the same
\* connection ids, and each of those ids is registered in
\* state.connections.
C39_MapsAgree ==
    /\ sockets = DOMAIN sinks
    /\ sockets \subseteq DOMAIN state.connections

\* C39 witness: connection 1 has been disconnected for an invalid frame and
\* not yet closed, so it is registered with neither socket nor sink, while
\* connection 2 is open with both.
C39_Witness ==
    /\ disconnects[1] = 1 /\ sockStatus[1] = "ended"
    /\ sockStatus[2] = "open"
    /\ sockets = {2}
    /\ DOMAIN sinks = {2}
    /\ DOMAIN state.connections = {1, 2}

====
